---- MODULE Spec2Model ----
(***************************************************************************)
(* A model of the MQTT broker core: the subscription trie                  *)
(* (topic_heir.rs), the broker command loop (listener.rs, core/mod.rs)     *)
(* and the three tasks of a connection (handlers/).                        *)
(*                                                                         *)
(* A String is a sequence of one-character strings, so that splitting on   *)
(* '/' and prefix tests are computed and not assumed.  An Option<T> is a   *)
(* sequence of length 0 (None) or 1 (Some).                                *)
(***************************************************************************)
EXTENDS Integers, Sequences, FiniteSets, TLC

VARIABLES
    subscriptions,  \* App.subscriptions : the SubscriptionTree
    treeOps,        \* number of trie operations applied so far
    lastGet,        \* result of the last SubscriptionTree::get
    sessions,       \* App.sessions : ClientId -> Session
    nextIdent,      \* the next fresh session identifier (Uuid::new_v4)
    commands,       \* the broker command channel, oldest first
    brokerPc,       \* "recv", "blocked" and "register" (inside a
                    \* send().await), "exit", "returned"
    pending,        \* the Publish or the RegisterClient the broker holds
                    \* while it waits in a send
    readPc,         \* position of handle_read_stream, per connection
    cid,            \* handle_read_stream's cid : Option<String>
    seenConnect,    \* handle_read_stream's seen_connect_packet
    body,           \* the tuples of the SUBSCRIBE being handled
    reply,          \* the one-shot reply the read handler awaits : Option
    token,          \* the connection's CancellationToken is cancelled
    events,         \* the outbound event channel of the connection
    mhPc,           \* position of message_handler : "run" or "done"
    queue,          \* the reply FifoQueue of the connection
    whPc,           \* position of handle_write_stream : "spawned" (not yet
                    \* polled), "run", "done", "err"
    written,        \* what was written to the socket so far, oldest first
    writing,        \* the message popped from the queue that
                    \* writer.write(..).await is called with : Option
    sockShut,       \* writer.shutdown() has run
    extCancelled,   \* the listener's CancellationToken is cancelled
    packetsLeft,    \* packets the client of each connection may still send
    pubSeq,         \* PUBLISH packets read so far (numbers the payloads)
    granted,        \* history: filters whose SUBACK was written and that
                    \* the connection has not unsubscribed since
    disconnectSent, \* history: connections that sent DisconnectClient
    lastPublish,    \* history: the last Publish the broker finished
    scenario,       \* what the clients of this run do
    profile,        \* the profile the crate was compiled with
    now,            \* the clock of the runtime, in seconds
    keepalive,      \* the deadline of handle_read_stream's `keepalive` sleep
    keepalive_duration, \* handle_read_stream's keepalive_duration
    bodyKeepalive,  \* body.keepalive of the CONNECT being handled
    sent,           \* the packets a client wrote to its socket, as bytes
    inbound,        \* the reads fill_buf will return, each a run of bytes
    decoded,        \* what the read loop got from Packet::unpack, in order
    input,          \* the arguments a function of the crate is called with
    output          \* what the calls made on the input returned, in order

treeVars == <<subscriptions, treeOps, lastGet>>

brokerVars == <<sessions, nextIdent, commands, brokerPc, pending>>

connVars == <<readPc, cid, seenConnect, body, reply, token, events, mhPc, queue,
              whPc, written, writing, sockShut>>

timeVars == <<now, keepalive, keepalive_duration, bodyKeepalive>>

wireVars == <<sent, inbound, decoded>>

callVars == <<input, output>>

envVars == <<extCancelled, packetsLeft, pubSeq, scenario, profile, timeVars, wireVars,
             callVars>>

histVars == <<granted, disconnectSent, lastPublish>>

vars == <<subscriptions, treeOps, lastGet, sessions, nextIdent, commands,
          brokerPc, pending, readPc, cid, seenConnect, body, reply, token, events,
          mhPc, queue, whPc, written, writing, sockShut, extCancelled, packetsLeft,
          pubSeq, granted, disconnectSent, lastPublish, scenario, profile, now,
          keepalive, keepalive_duration, bodyKeepalive, sent, inbound,
          decoded, input, output>>

----------------------------------------------------------------------------
(* Bounds *)

MaxTreeOps == 3

\* the publishes in a row the fairness of a share group is counted over
MaxPublishes == 4

\* the levels of the strings tokenise_topic is applied to
MaxLevels == 4

\* identifiers (session ids) of the leaves used to exercise the trie
MaxIdent == 2

\* packets the client of a connection sends in a run
MaxPackets == 2

\* capacity of the broker command channel (channel::<Command>(100)) and of
\* an outbound event channel (channel::<ClientEvent>(100)), scaled down
CommandCap == 2

EventCap == 2

\* worker threads of the runtime in a "sched" run: worker_threads = 10 of
\* main.rs, scaled down to the number of connections
WorkerThreads == 2

\* worker_threads = 10 of main.rs
MainWorkerThreads == 10

\* packets in the byte stream of a client whose framing is followed
MaxStream == 2

\* seconds the clock runs in a run that follows the keepalive timer
MaxTime == 8

----------------------------------------------------------------------------
(* Strings *)

None == <<>>

Some(x) == <<x>>

SEP == "/"

SHARE == <<"$", "s", "h", "a", "r", "e">>

EMPTY == <<>>

\* value.split('/') : always yields at least one (possibly empty) level
RECURSIVE SplitFrom(_, _)
SplitFrom(value, cur) ==
    IF value = <<>> THEN <<cur>>
    ELSE IF Head(value) = SEP
         THEN <<cur>> \o SplitFrom(Tail(value), <<>>)
         ELSE SplitFrom(Tail(value), Append(cur, Head(value)))

Split(value) == SplitFrom(value, <<>>)

\* str.starts_with(prefix)
StartsWith(str, prefix) ==
    /\ Len(str) >= Len(prefix)
    /\ SubSeq(str, 1, Len(prefix)) = prefix

\* a variant of tokenise_topic that treats `$share` as any other level
tokenise_topic_plain(value) == [ok |-> TRUE, topic |-> Split(value), share |-> None]

\* utils::tokenise_topic : (levels, share name) or Err(1)
tokenise_topic(value) ==
    LET topic == Split(value) IN
    IF Head(topic) = SHARE
    THEN IF Len(topic) < 2
         THEN [ok |-> FALSE, topic |-> <<>>, share |-> None]
         ELSE LET rest == Tail(topic) IN
              [ok |-> TRUE,
               topic |-> <<EMPTY>> \o Tail(rest),
               share |-> Some(Head(rest))]
    ELSE [ok |-> TRUE, topic |-> topic, share |-> None]

----------------------------------------------------------------------------
(* The subscription trie.  A tree is a function from the path of a node   *)
(* (the non-empty sequence of levels leading to it) to the node's own     *)
(* data; the children of a node are the paths one level longer.           *)

SubscriptionLeaf(qos, identifier, bridge) ==
    [qos |-> qos, identifier |-> identifier, bridge |-> bridge]

SubHierNew == [subs |-> <<>>, shared |-> <<>>]

SubscriptionTreeNew == <<>>

\* The shared map of a node is a sequence of <<share name, leaves>> pairs
\* with distinct names (a map; only lookups by key are made).
SharedHas(shared, name) == \E i \in 1..Len(shared) : shared[i][1] = name

SharedGet(shared, name) ==
    LET i == CHOOSE i \in 1..Len(shared) : shared[i][1] = name IN shared[i][2]

SharedPut(shared, name, leaves) ==
    IF SharedHas(shared, name)
    THEN [i \in 1..Len(shared) |->
            IF shared[i][1] = name THEN <<name, leaves>> ELSE shared[i]]
    ELSE Append(shared, <<name, leaves>>)

HasNode(tree, path) == path \in DOMAIN tree

HasChildren(tree, path) ==
    \E q \in DOMAIN tree :
        Len(q) = Len(path) + 1 /\ SubSeq(q, 1, Len(path)) = path

\* Vec::remove(position(identifier)) : drop the first leaf of the identifier
RemoveLeaf(leaves, identifier) ==
    IF \E i \in 1..Len(leaves) : leaves[i].identifier = identifier
    THEN LET idx == CHOOSE i \in 1..Len(leaves) :
                        /\ leaves[i].identifier = identifier
                        /\ \A j \in 1..(i - 1) : leaves[j].identifier # identifier
         IN SubSeq(leaves, 1, idx - 1) \o SubSeq(leaves, idx + 1, Len(leaves))
    ELSE leaves

\* a variant of the push of SubHier::insert that leaves the earlier leaf of
\* the identifier in place
AppendLeaf(leaves, sub) == Append(leaves, sub)

\* the replace-then-push of SubHier::insert
ReplaceLeaf(leaves, sub) == Append(RemoveLeaf(leaves, sub.identifier), sub)

AddNode(tree, path) ==
    IF HasNode(tree, path) THEN tree
    ELSE [p \in (DOMAIN tree) \cup {path} |->
            IF p = path THEN SubHierNew ELSE tree[p]]

DropNode(tree, path) == [p \in (DOMAIN tree) \ {path} |-> tree[p]]

\* SubHier::insert on the node at path, with the levels left in iter
RECURSIVE SubHierInsert(_, _, _, _, _)
SubHierInsert(tree, path, iter, sub, share) ==
    IF iter # <<>>
    THEN LET child == Append(path, Head(iter)) IN
         SubHierInsert(AddNode(tree, child), child, Tail(iter), sub, share)
    ELSE IF share # None
    THEN LET sharename == share[1]
             old == IF SharedHas(tree[path].shared, sharename)
                    THEN SharedGet(tree[path].shared, sharename) ELSE <<>>
         IN [tree EXCEPT ![path].shared =
                SharedPut(@, sharename, ReplaceLeaf(old, sub))]
    ELSE [tree EXCEPT ![path].subs = ReplaceLeaf(@, sub)]

\* SubscriptionTree::insert : the new tree and Ok / Err
SubscriptionTreeInsert(tree, filter, sub) ==
    LET tok == tokenise_topic(filter) IN
    IF ~tok.ok THEN [ok |-> FALSE, tree |-> tree]
    ELSE LET first == <<Head(tok.topic)>> IN
         [ok |-> TRUE,
          tree |-> SubHierInsert(AddNode(tree, first), first,
                                 Tail(tok.topic), sub, tok.share)]

\* SubHier::delete on the node at path : the new tree; can_remove is
\* computed by CanRemove on the result
CanRemove(tree, path) ==
    /\ ~HasChildren(tree, path)
    /\ tree[path].shared = <<>>
    /\ tree[path].subs = <<>>

RECURSIVE SubHierDelete(_, _, _, _, _)
SubHierDelete(tree, path, iter, identifier, share) ==
    IF iter # <<>>
    THEN LET child == Append(path, Head(iter)) IN
         IF HasNode(tree, child)
         THEN LET t1 == SubHierDelete(tree, child, Tail(iter), identifier, share)
              IN IF CanRemove(t1, child) THEN DropNode(t1, child) ELSE t1
         ELSE tree
    ELSE IF share # None
    THEN IF SharedHas(tree[path].shared, share[1])
         THEN [tree EXCEPT ![path].shared =
                 SharedPut(@, share[1],
                           RemoveLeaf(SharedGet(@, share[1]), identifier))]
         ELSE tree
    ELSE [tree EXCEPT ![path].subs = RemoveLeaf(@, identifier)]

\* SubscriptionTree::delete
SubscriptionTreeDelete(tree, filter, identifier) ==
    LET tok == tokenise_topic(filter) IN
    IF ~tok.ok THEN [ok |-> FALSE, tree |-> tree]
    ELSE LET first == <<Head(tok.topic)>> IN
         IF HasNode(tree, first)
         THEN LET t1 == SubHierDelete(tree, first, Tail(tok.topic),
                                      identifier, tok.share)
              IN [ok |-> TRUE,
                  tree |-> IF CanRemove(t1, first) THEN DropNode(t1, first) ELSE t1]
         ELSE [ok |-> TRUE, tree |-> tree]

\* a variant of PushLeaves that appends every leaf without looking for its
\* identifier among the subscribers already collected
RECURSIVE PushLeavesNoDedup(_, _)
PushLeavesNoDedup(subscribers, leaves) ==
    IF leaves = <<>> THEN subscribers
    ELSE PushLeavesNoDedup(
            Append(subscribers,
                   <<Head(leaves).identifier, Head(leaves).bridge, Head(leaves).qos>>),
            Tail(leaves))

\* for x in leaves { if !subscribers.any(|e| e.0 == x.identifier) { push } }
RECURSIVE PushLeaves(_, _)
PushLeaves(subscribers, leaves) ==
    IF leaves = <<>> THEN subscribers
    ELSE LET x == Head(leaves) IN
         PushLeaves(
            IF \E i \in 1..Len(subscribers) : subscribers[i][1] = x.identifier
            THEN subscribers
            ELSE Append(subscribers, <<x.identifier, x.bridge, x.qos>>),
            Tail(leaves))

\* the leaves a node contributes: its share group when a share name was
\* given, its regular subscribers otherwise
NodeLeaves(tree, path, share) ==
    IF share # None
    THEN IF SharedHas(tree[path].shared, share[1])
         THEN SharedGet(tree[path].shared, share[1]) ELSE <<>>
    ELSE tree[path].subs

\* the `#` child of the node at path contributes its leaves
MultiLevel(tree, path, subscribers, share) ==
    LET child == Append(path, <<"#">>) IN
    IF HasNode(tree, child)
    THEN PushLeaves(subscribers, NodeLeaves(tree, child, share))
    ELSE subscribers

\* SubHier::get.  The iterator is one object handed down by mutable
\* reference: what a call consumes is gone for the caller, so the result
\* carries the iterator as it is left.
RECURSIVE SubHierGet(_, _, _, _, _)
SubHierGet(tree, path, iter, subscribers, share) ==
    LET r == IF iter # <<>>
             THEN LET exact == Append(path, Head(iter))
                      plus == Append(path, <<"+">>)
                      r1 == IF HasNode(tree, exact)
                            THEN SubHierGet(tree, exact, Tail(iter), subscribers, share)
                            ELSE [subscribers |-> subscribers, iter |-> Tail(iter)]
                  IN IF HasNode(tree, plus)
                     THEN SubHierGet(tree, plus, r1.iter, r1.subscribers, share)
                     ELSE r1
             ELSE [subscribers |-> PushLeaves(subscribers, NodeLeaves(tree, path, share)),
                   iter |-> iter]
    IN [subscribers |-> MultiLevel(tree, path, r.subscribers, share),
        iter |-> r.iter]

\* SubscriptionTree::get : Ok(subscribers) or Err
SubscriptionTreeGet(tree, filter) ==
    LET tok == tokenise_topic(filter) IN
    IF ~tok.ok THEN [ok |-> FALSE, subscribers |-> <<>>]
    ELSE LET exact == <<Head(tok.topic)>>
             plus == <<<<"+">>>>
             r1 == IF HasNode(tree, exact)
                   THEN SubHierGet(tree, exact, Tail(tok.topic), <<>>, tok.share)
                   ELSE [subscribers |-> <<>>, iter |-> Tail(tok.topic)]
             r2 == IF HasNode(tree, plus)
                   THEN SubHierGet(tree, plus, r1.iter, r1.subscribers, tok.share)
                   ELSE r1
         IN [ok |-> TRUE,
             subscribers |-> MultiLevel(tree, <<>>, r2.subscribers, tok.share)]

----------------------------------------------------------------------------
(* Inputs: the filters and topics the model draws from *)

F_hash == <<"#">>

F_plus_b == <<"+", "/", "b">>

F_a_b == <<"a", "/", "b">>

F_a_plus == <<"a", "/", "+">>

F_a_hash == <<"a", "/", "#">>

F_sys_hash == <<"$", "S", "Y", "S", "/", "#">>

F_share_a_b == SHARE \o <<"/", "g", "/", "a", "/", "b">>

T_a_b == <<"a", "/", "b">>

T_a == <<"a">>

T_sys_b == <<"$", "S", "Y", "S", "/", "b">>

TreeFilters == {F_hash, F_plus_b, F_a_b, F_a_plus, F_a_hash, F_sys_hash, F_share_a_b}

TreeTopics == {T_a_b, T_a, T_sys_b}

TreeQos == {0, 2}

Idents == 1..MaxIdent


T_a_c == <<"a", "/", "c">>

F_a_c == <<"a", "/", "c">>

\* the connections accepted by the listener
Conns == {1, 2}

\* What the clients of a run do.  In a "session" run both clients connect,
\* connection 2 possibly under the ClientId of connection 1, and the
\* first connection closes in every way; in a "pubsub" run the client of
\* connection 1 subscribes and the client of connection 2 publishes; in a
\* "shutdown" run the server is shut down around a subscriber; in a
\* "takeover" run connection 1 subscribes and connection 2 connects under
\* the same ClientId, keeping the session, and publishes; in a
\* "keepalive" run the clock advances while connection 1 connects, pings
\* and publishes.  A "sched" run is a "shutdown" run on a runtime with no
\* more worker threads than connections, a "wire" run follows the bytes of
\* a client through the read loop.
Scenarios == {"session", "pubsub", "shutdown", "takeover", "keepalive"}

\* the connection whose keepalive timer is followed, and the keepalive
\* values a CONNECT may declare
Timed(c) == scenario = "keepalive" /\ c = 1

Keepalives(c) == IF Timed(c) THEN {0, 2} ELSE {0}

\* a "handshake" run follows the QoS handshake packets of connection 1
Handshake(c) == scenario = "handshake" /\ c = 1

\* the ClientIds the client of a connection puts in a CONNECT
ConnectIds(c) ==
    IF c = 1 \/ scenario \in {"session", "takeover"} THEN {"X"} ELSE {}

CleanFlags(c) == IF c = 1 \/ scenario = "takeover" THEN {FALSE} ELSE {TRUE}

\* the (filter, qos) lists of the SUBSCRIBE packets of a connection
SubLists(c) ==
    IF scenario \in {"shutdown", "sched"}
    THEN IF c = 1 THEN {<<<<F_hash, 2>>>>} ELSE {}
    ELSE IF scenario = "session" THEN {<<<<F_hash, 2>>>>}
    ELSE IF scenario = "keepalive" THEN {}
    ELSE IF scenario = "takeover" THEN IF c = 1 THEN {<<<<F_hash, 1>>>>} ELSE {}
    ELSE IF c = 1
    THEN {<<<<F_plus_b, 1>>, <<F_a_c, 0>>>>, <<<<F_hash, 1>>>>,
          <<<<F_share_a_b, 0>>, <<F_sys_hash, 2>>>>}
    ELSE {}

\* the filter lists of the UNSUBSCRIBE packets of a connection
UnsubLists(c) == IF scenario = "pubsub" /\ c = 1 THEN {<<<<F_hash, 0>>>>} ELSE {}

\* the topics of the PUBLISH packets of a connection
PublishTopics(c) ==
    IF scenario = "pubsub" /\ c = 2 THEN {T_a_b, T_sys_b}
    ELSE IF scenario = "takeover" /\ c = 2 THEN {T_a_b}
    ELSE IF Timed(c) \/ Handshake(c) THEN {T_a_b}
    ELSE {}

\* packets the client of a connection sends in a run; in a "takeover" run
\* connection 2 sends one more, so that its CONNECT and its PUBLISH packets
\* put more events on the channel of connection 1 than the channel holds
Packets(c) ==
    IF scenario = "takeover" /\ c = 2 THEN MaxPackets + 1
    ELSE IF scenario = "wire" THEN 4 * MaxStream
    ELSE MaxPackets

\* whether a connection closes in this run: by DISCONNECT, timeout, socket
\* error or bad packet
Closes(c) == scenario = "session" /\ c = 1

QosLevels == {0, 1}

\* the QoS of the PUBLISH packets of a connection
PublishQos(c) ==
    IF Handshake(c) THEN {0, 1, 2}
    ELSE IF scenario = "takeover" THEN {0}
    ELSE QosLevels

\* the packet identifiers a client uses
PacketIds(c) == IF Handshake(c) THEN {1, 2} ELSE {1}

----------------------------------------------------------------------------
(* Packets, events and commands *)

Packet(type, topic, qos, payload, codes) ==
    [type |-> type, topic |-> topic, qos |-> qos, payload |-> payload,
     codes |-> codes, packet_id |-> 0]

\* Packet::make_publish(false, qos, false, topic, None, payload)
make_publish(qos, topic, payload) == Packet("PUBLISH", topic, qos, payload, <<>>)

make_connack(rc) == Packet("CONNACK", <<>>, 0, <<>>, <<rc>>)

\* the topic field of a SUBACK stands for its packet id: it names the
\* filters of the SUBSCRIBE it answers
make_suback(topics, codes) == Packet("SUBACK", topics, 0, <<>>, codes)

make_simple(type) == Packet(type, <<>>, 0, <<>>, <<>>)

\* Packet::make_puback, make_pubrec, make_pubrel, make_pubcomp
make_ack(type, packet_id) == [make_simple(type) EXCEPT !.packet_id = packet_id]

ClientEventMessage(packet) == [kind |-> "Message", packet |-> packet]

ClientEventDisconnect == [kind |-> "Disconnect", packet |-> make_simple("NONE")]

Command(type, from, id, clean, topics, topic, payload, expect) ==
    [type |-> type, from |-> from, id |-> id, clean |-> clean,
     topics |-> topics, topic |-> topic, payload |-> payload,
     expect |-> expect]

CommandRegisterClient(from, id, clean) ==
    Command("RegisterClient", from, id, clean, <<>>, <<>>, <<>>, {})

CommandSubscribe(from, id, topics) ==
    Command("Subscribe", from, id, FALSE, topics, <<>>, <<>>, {})

CommandUnsubscribe(from, id, topics) ==
    Command("Unsubscribe", from, id, FALSE, topics, <<>>, <<>>, {})

\* Command::Publish { topic, payload }.  expect is history carried along
\* for the properties (the connections that held a SUBACK for a matching
\* filter when the PUBLISH was read); the command of the program lacks it.
CommandPublish(from, topic, payload, expect) ==
    Command("Publish", from, "", FALSE, <<>>, topic, payload, expect)

CommandDisconnectClient(from, id) ==
    Command("DisconnectClient", from, id, FALSE, <<>>, <<>>, <<>>, {})

CommandExit == Command("Exit", 0, "", FALSE, <<>>, <<>>, <<>>, {})

NoPublish == [topic |-> <<>>, payload |-> <<>>, expect |-> {}, from |-> 0,
              found |-> <<>>, targets |-> <<>>]

----------------------------------------------------------------------------
(* Channels *)

\* the receiver of a connection's event channel lives in message_handler
ReceiverDropped(c) == mhPc[c] = "done"

\* Sender::send(..).await completes at once on a closed channel (Err) and
\* on a channel with room (Ok); on a full channel it waits
SendCompletes(ev, c) == ReceiverDropped(c) \/ Len(ev[c]) < EventCap

\* the channel after a send that completes
ChannelSend(ev, c, event) ==
    IF ReceiverDropped(c) THEN ev ELSE [ev EXCEPT ![c] = Append(@, event)]

BrokerGone == brokerPc \in {"exit", "returned"}

\* a send on the command channel completes when there is room or when the
\* broker task has ended (Err)
CommandSendCompletes == BrokerGone \/ Len(commands) < CommandCap

CommandSend(cmds, cmd) == IF BrokerGone THEN cmds ELSE Append(cmds, cmd)

----------------------------------------------------------------------------
(* App : the state owned by the broker task *)

has_client(sess, id) == id \in DOMAIN sess

\* a variant of update_client that keeps the producer of an existing session
update_client_keeping_bridge(sess, id, message_channel, ident) ==
    IF id \in DOMAIN sess
    THEN sess
    ELSE [k \in (DOMAIN sess) \cup {id} |->
            IF k = id
            THEN [ident |-> ident, bridge |-> message_channel, subscriptions |-> <<>>]
            ELSE sess[k]]

\* existing session: replace its producer; otherwise insert a new session
update_client(sess, id, message_channel, ident) ==
    IF id \in DOMAIN sess
    THEN [sess EXCEPT ![id].bridge = message_channel]
    ELSE [k \in (DOMAIN sess) \cup {id} |->
            IF k = id
            THEN [ident |-> ident, bridge |-> message_channel, subscriptions |-> <<>>]
            ELSE sess[k]]

\* Client::clear_session -> Session::clear
clear_client_session(sess, id) ==
    IF id \in DOMAIN sess THEN [sess EXCEPT ![id].subscriptions = <<>>] ELSE sess

\* sessions.remove(&cid)
remove_client(sess, id) == [k \in (DOMAIN sess) \ {id} |-> sess[k]]

\* the matches of a topic; a topic that fails to tokenise matches nothing
get_matches(tree, topic) == SubscriptionTreeGet(tree, topic).subscribers

SubackFailure == 128

\* a variant of SubscribeTopics without the test for a leading `$`
RECURSIVE SubscribeTopicsUnchecked(_, _, _, _, _, _)
SubscribeTopicsUnchecked(tree, subs, codes, topics, ident, bridge) ==
    IF topics = <<>> THEN [tree |-> tree, subs |-> subs, codes |-> codes]
    ELSE LET topic == Head(topics)[1]
             qos == Head(topics)[2]
             r == SubscriptionTreeInsert(tree, topic,
                                         SubscriptionLeaf(qos, ident, bridge))
         IN SubscribeTopicsUnchecked(r.tree,
                IF r.ok THEN Append(subs, <<topic, qos>>) ELSE subs,
                Append(codes, IF r.ok THEN qos ELSE SubackFailure),
                Tail(topics), ident, bridge)

\* the loop over the topics of a Subscribe: the tree, the session's list
\* and the codes after it
RECURSIVE SubscribeTopics(_, _, _, _, _, _)
SubscribeTopics(tree, subs, codes, topics, ident, bridge) ==
    IF topics = <<>> THEN [tree |-> tree, subs |-> subs, codes |-> codes]
    ELSE LET topic == Head(topics)[1]
             qos == Head(topics)[2]
         IN IF StartsWith(topic, <<"$">>)
               /\ ~StartsWith(topic, <<"$", "S", "Y", "S", "/">>)
            THEN SubscribeTopics(tree, subs, Append(codes, SubackFailure),
                                 Tail(topics), ident, bridge)
            ELSE LET r == SubscriptionTreeInsert(tree, topic,
                                SubscriptionLeaf(qos, ident, bridge))
                 IN SubscribeTopics(r.tree,
                        IF r.ok THEN Append(subs, <<topic, qos>>) ELSE subs,
                        Append(codes, IF r.ok THEN qos ELSE SubackFailure),
                        Tail(topics), ident, bridge)

\* the loop over the topics of an Unsubscribe
RECURSIVE UnsubscribeTopics(_, _, _)
UnsubscribeTopics(tree, topics, ident) ==
    IF topics = <<>> THEN tree
    ELSE UnsubscribeTopics(SubscriptionTreeDelete(tree, Head(topics)[1], ident).tree,
                           Tail(topics), ident)

\* the sends of a Publish dispatch, in order, up to the first send that has
\* to wait: the channels after them and the targets not yet served
RECURSIVE Dispatch(_, _, _, _)
Dispatch(ev, targets, topic, payload) ==
    IF targets = <<>> THEN [events |-> ev, targets |-> <<>>]
    ELSE LET target == Head(targets)[2]
             qos == Head(targets)[3]
         IN IF SendCompletes(ev, target)
            THEN Dispatch(ChannelSend(ev, target,
                              ClientEventMessage(make_publish(qos, topic, payload))),
                          Tail(targets), topic, payload)
            ELSE [events |-> ev, targets |-> targets]

----------------------------------------------------------------------------
(* The broker task: listen()'s command loop *)

Reply(status, codes) == [status |-> status, codes |-> codes]

HasCallback(cmd) == cmd.type \in {"RegisterClient", "Subscribe", "Unsubscribe"}

\* callback.send(value): the value reaches the read handler that awaits it
Respond(rep, cmd, value) == [rep EXCEPT ![cmd.from] = Some(value)]

\* the receiver of the command channel is dropped with the commands still
\* in it: the read handlers awaiting one of their callbacks see it dropped
DropCallbacks(rep, cmds) ==
    [c \in Conns |->
        IF \E i \in 1..Len(cmds) : cmds[i].from = c /\ HasCallback(cmds[i])
        THEN Some(Reply("Dropped", <<>>))
        ELSE rep[c]]

BrokerTakes(type) ==
    /\ brokerPc = "recv"
    /\ commands # <<>>
    /\ Head(commands).type = type

\* RegisterClient from disconnect_client(&id).await on: the Disconnect for
\* the producer of the session the ClientId had, update_client,
\* clear_client_session and the callback
Register(cmd) ==
    LET had == has_client(sessions, cmd.id)
        updated == update_client(sessions, cmd.id, cmd.from, nextIdent)
    IN /\ events' = IF had
                    THEN ChannelSend(events, sessions[cmd.id].bridge,
                                     ClientEventDisconnect)
                    ELSE events
       /\ sessions' = IF cmd.clean
                      THEN clear_client_session(updated, cmd.id)
                      ELSE updated
       /\ nextIdent' = IF had THEN nextIdent ELSE nextIdent + 1
       /\ reply' = Respond(reply, cmd, Reply("Ok", <<>>))

\* the send of disconnect_client has to wait: the channel of the session's
\* producer is full and its receiver alive
RegisterWaits(cmd) ==
    /\ has_client(sessions, cmd.id)
    /\ ~SendCompletes(events, sessions[cmd.id].bridge)

\* the command is taken from the channel; the session is updated and the
\* callback answered once the Disconnect is sent
listen_RegisterClient ==
    /\ BrokerTakes("RegisterClient")
    /\ commands' = Tail(commands)
    /\ IF RegisterWaits(Head(commands))
       THEN /\ brokerPc' = "register"
            /\ pending' = Head(commands)
            /\ UNCHANGED <<events, sessions, nextIdent, reply>>
       ELSE /\ Register(Head(commands))
            /\ UNCHANGED <<brokerPc, pending>>
    /\ UNCHANGED <<subscriptions, treeOps, lastGet>>
    /\ UNCHANGED <<readPc, cid, seenConnect, body, token, mhPc, queue, whPc,
                   written, writing, sockShut>>
    /\ UNCHANGED <<envVars, histVars>>

\* the send the broker waits in completes: room was made or the receiver
\* was dropped
listen_RegisterClientResume ==
    /\ brokerPc = "register"
    /\ ~RegisterWaits(pending)
    /\ Register(pending)
    /\ brokerPc' = "recv"
    /\ pending' = NoPublish
    /\ UNCHANGED <<subscriptions, treeOps, lastGet, commands>>
    /\ UNCHANGED <<readPc, cid, seenConnect, body, token, mhPc, queue, whPc,
                   written, writing, sockShut>>
    /\ UNCHANGED <<envVars, histVars>>

\* Subscribe for a ClientId without a session: Err(Unknown) is sent and the
\* task returns
listen_SubscribeUnknown ==
    /\ BrokerTakes("Subscribe")
    /\ ~has_client(sessions, Head(commands).id)
    /\ reply' = Respond(DropCallbacks(reply, Tail(commands)), Head(commands),
                        Reply("Err", <<>>))
    /\ brokerPc' = "returned"
    /\ commands' = <<>>
    /\ UNCHANGED <<subscriptions, treeOps, lastGet, sessions, nextIdent, pending>>
    /\ UNCHANGED <<readPc, cid, seenConnect, body, token, events, mhPc, queue,
                   whPc, written, writing, sockShut>>
    /\ UNCHANGED <<envVars, histVars>>

listen_Subscribe ==
    /\ BrokerTakes("Subscribe")
    /\ has_client(sessions, Head(commands).id)
    /\ LET cmd == Head(commands)
           client == sessions[cmd.id]
           r == SubscribeTopics(subscriptions, client.subscriptions, <<>>,
                                cmd.topics, client.ident, client.bridge)
       IN /\ subscriptions' = r.tree
          /\ sessions' = [sessions EXCEPT ![cmd.id].subscriptions = r.subs]
          /\ reply' = Respond(reply, cmd, Reply("Ok", r.codes))
    /\ commands' = Tail(commands)
    /\ UNCHANGED <<treeOps, lastGet, nextIdent, brokerPc, pending>>
    /\ UNCHANGED <<readPc, cid, seenConnect, body, token, events, mhPc, queue,
                   whPc, written, writing, sockShut>>
    /\ UNCHANGED <<envVars, histVars>>

\* the dispatch of a Publish from the targets still to serve
DispatchFrom(pub) ==
    LET d == Dispatch(events, pub.targets, pub.topic, pub.payload) IN
    /\ events' = d.events
    /\ IF d.targets = <<>>
       THEN /\ brokerPc' = "recv"
            /\ pending' = NoPublish
            /\ lastPublish' = [pub EXCEPT !.targets = <<>>]
       ELSE /\ brokerPc' = "blocked"
            /\ pending' = [pub EXCEPT !.targets = d.targets]
            /\ UNCHANGED lastPublish

listen_Publish ==
    /\ BrokerTakes("Publish")
    /\ LET cmd == Head(commands)
           targets == get_matches(subscriptions, cmd.topic)
       IN DispatchFrom([topic |-> cmd.topic, payload |-> cmd.payload,
                        expect |-> cmd.expect, from |-> cmd.from,
                        found |-> targets, targets |-> targets])
    /\ commands' = Tail(commands)
    /\ UNCHANGED <<subscriptions, treeOps, lastGet, sessions, nextIdent>>
    /\ UNCHANGED <<readPc, cid, seenConnect, body, reply, token, mhPc, queue,
                   whPc, written, writing, sockShut>>
    /\ UNCHANGED <<envVars, granted, disconnectSent>>

\* the send the broker waits in completes: room was made or the receiver
\* was dropped
listen_PublishResume ==
    /\ brokerPc = "blocked"
    /\ SendCompletes(events, Head(pending.targets)[2])
    /\ DispatchFrom(pending)
    /\ UNCHANGED <<subscriptions, treeOps, lastGet, sessions, nextIdent, commands>>
    /\ UNCHANGED <<readPc, cid, seenConnect, body, reply, token, mhPc, queue,
                   whPc, written, writing, sockShut>>
    /\ UNCHANGED <<envVars, granted, disconnectSent>>

listen_Unsubscribe ==
    /\ BrokerTakes("Unsubscribe")
    /\ LET cmd == Head(commands) IN
       /\ subscriptions' =
             IF has_client(sessions, cmd.id)
             THEN UnsubscribeTopics(subscriptions, cmd.topics, sessions[cmd.id].ident)
             ELSE subscriptions
       /\ reply' = Respond(reply, cmd, Reply("Ok", <<>>))
    /\ commands' = Tail(commands)
    /\ UNCHANGED <<treeOps, lastGet, sessions, nextIdent, brokerPc, pending>>
    /\ UNCHANGED <<readPc, cid, seenConnect, body, token, events, mhPc, queue,
                   whPc, written, writing, sockShut>>
    /\ UNCHANGED <<envVars, histVars>>

listen_DisconnectClient ==
    /\ BrokerTakes("DisconnectClient")
    /\ sessions' = remove_client(sessions, Head(commands).id)
    /\ commands' = Tail(commands)
    /\ UNCHANGED <<subscriptions, treeOps, lastGet, nextIdent, brokerPc, pending>>
    /\ UNCHANGED <<connVars, envVars, histVars>>

listen_Exit ==
    /\ BrokerTakes("Exit")
    /\ brokerPc' = "exit"
    /\ reply' = DropCallbacks(reply, Tail(commands))
    /\ commands' = <<>>
    /\ UNCHANGED <<subscriptions, treeOps, lastGet, sessions, nextIdent, pending>>
    /\ UNCHANGED <<readPc, cid, seenConnect, body, token, events, mhPc, queue,
                   whPc, written, writing, sockShut>>
    /\ UNCHANGED <<envVars, histVars>>

\* the worker threads of the runtime of a run
Workers == IF scenario = "sched" THEN WorkerThreads ELSE MainWorkerThreads

\* The loop of handle_write_stream has no await while the queue is empty and
\* the token is not cancelled, so a write task that has been polled keeps
\* its worker thread until it ends; every other task, and the signal driver
\* that wakes ctrl_c, needs a free worker.
Spinning == {c \in Conns : whPc[c] \in {"run", "empty"}}

FreeWorker == Cardinality(Spinning) < Workers

\* ctrl_c is woken by the signal driver, which the worker threads turn; the
\* select is left, Exit is sent to the broker, then the token is cancelled
listen_Shutdown ==
    /\ scenario \in {"shutdown", "sched"}
    /\ ~extCancelled
    /\ FreeWorker
    /\ CommandSendCompletes
    /\ commands' = CommandSend(commands, CommandExit)
    /\ extCancelled' = TRUE
    /\ UNCHANGED <<subscriptions, treeOps, lastGet, sessions, nextIdent,
                   brokerPc, pending>>
    /\ UNCHANGED <<connVars, packetsLeft, pubSeq, scenario, profile, callVars, wireVars, timeVars, histVars>>

----------------------------------------------------------------------------
(* Reference semantics of topic filters (MQTT 3.1.1, section 4.7), used to *)
(* state what a subscriber is entitled to                                  *)

RECURSIVE LevelsMatch(_, _)
LevelsMatch(f, t) ==
    IF f = <<>> THEN t = <<>>
    ELSE IF Head(f) = <<"#">> THEN Len(f) = 1
    ELSE IF t = <<>> THEN FALSE
    ELSE IF Head(f) = <<"+">> \/ Head(f) = Head(t) THEN LevelsMatch(Tail(f), Tail(t))
    ELSE FALSE

MqttMatches(filter, topic) ==
    LET f == Split(filter)
        t == Split(topic)
    IN /\ ~(StartsWith(Head(t), <<"$">>) /\ Head(f) \in {<<"+">>, <<"#">>})
       /\ LevelsMatch(f, t)

----------------------------------------------------------------------------
(* The codec: packets/utils.rs, packets/headers/ and packets/mod.rs.  A u8  *)
(* is a number in 0..255, a byte string a sequence of them and a String the *)
(* sequence of its UTF-8 bytes.  An iterator over a slice is the slice with *)
(* the position `at` of its next byte; a decoder returns the position after *)
(* what it consumed.  The MQTT 5 property fields of a header are None in    *)
(* every packet the decoder builds and are never written by the encoder;    *)
(* they are left out of the records.                                        *)

MAX_ENCODED_SIZE == 128 * 128 * 128

MAX_ENCODED_BYTES == 4

\* Err(MqttError::e)
Err(e) == [ok |-> FALSE, err |-> e]

\* the `?` operator: the error of a result, or what follows applied to it
Try(r, F(_)) == IF r.ok THEN F(r) ELSE r

Min(a, b) == IF a <= b THEN a ELSE b

\* iter.take(n).copied().collect() : the next n bytes, or those that are left
Take(bytes, at, n) == SubSeq(bytes, at, Min(at + n - 1, Len(bytes)))

\* bit i of a byte
Bit(byte, i) == (byte \div (2 ^ i)) % 2 = 1

\* the discriminants of PacketType
CONNECT == 1
CONNACK == 2
PUBLISH == 3
PUBACK == 4
PUBREC == 5
PUBREL == 6
PUBCOMP == 7
SUBSCRIBE == 8
SUBACK == 9
UNSUBSCRIBE == 10
UNSUBACK == 11
PINGREQ == 12
PINGRESP == 13
DISCONNECT == 14
AUTH == 15

\* PacketType::try_from : 1..=14
PacketTypeOf(data) == IF data \in 1..14 THEN Some(data) ELSE None

\* QosLevel::try_from : 0, 1, 2
QosLevelOf(data) == IF data \in 0..2 THEN Some(data) ELSE None

\* ConnectReturnCode::try_from : 0..=5
ConnectReturnCodeOf(data) == IF data \in 0..5 THEN Some(data) ELSE None

\* the first discriminants of ConnectReturnCode
Accepted == 0

V4UnacceptableProtocal == 1

V4IdentifierRejected == 2

\* SubackReturnCode::try_from : 0x00, 0x01, 0x02, 0x80
SubackReturnCodeOf(data) == IF data \in {0, 1, 2, 128} THEN Some(data) ELSE None

\* ProtocalVersion::from(u8)
ProtocalVersionFrom(byte) ==
    CASE byte = 4 -> "Four" [] byte = 5 -> "Five" [] OTHER -> "Unknown"

\* u8::from(ProtocalVersion)
ProtocalVersionInto(version) ==
    CASE version = "Five" -> 5 [] version = "Four" -> 4 [] OTHER -> 0

\* String::from_utf8 accepts the well-formed UTF-8 byte sequences
Continuation(byte) == byte \in 128..191

\* the number of bytes of the well-formed UTF-8 sequence the bytes start
\* with, 0 when they start with none
Utf8Width(chars) ==
    LET b == chars[1]
        n == Len(chars)
        Two(lo, hi) == IF n >= 2 /\ chars[2] \in lo..hi THEN 2 ELSE 0
        Three(lo, hi) == IF /\ n >= 3
                            /\ chars[2] \in lo..hi
                            /\ Continuation(chars[3])
                         THEN 3 ELSE 0
        Four(lo, hi) == IF /\ n >= 4
                           /\ chars[2] \in lo..hi
                           /\ Continuation(chars[3])
                           /\ Continuation(chars[4])
                        THEN 4 ELSE 0
    IN CASE b < 128 -> 1
         [] b \in 194..223 -> Two(128, 191)
         [] b = 224 -> Three(160, 191)
         [] b \in 225..236 \/ b \in 238..239 -> Three(128, 191)
         [] b = 237 -> Three(128, 159)
         [] b = 240 -> Four(144, 191)
         [] b \in 241..243 -> Four(128, 191)
         [] b = 244 -> Four(128, 143)
         [] OTHER -> 0

RECURSIVE from_utf8(_)
from_utf8(chars) ==
    IF chars = <<>> THEN TRUE
    ELSE LET width == Utf8Width(chars)
         IN width > 0 /\ from_utf8(SubSeq(chars, width + 1, Len(chars)))

\* decode_length : the variable-length integer at position `at`
RECURSIVE decode_length(_, _, _, _, _)
decode_length(bytes, at, multiplier, value, len) ==
    IF at > Len(bytes) THEN Err("MissingByte")
    ELSE LET byte == bytes[at]
             v == value + (byte % 128) * multiplier
         IN IF multiplier > MAX_ENCODED_SIZE THEN Err("MalformedRemaingLength")
            ELSE IF byte < 128
                 THEN [ok |-> TRUE, value |-> v, len |-> len + 1]
                 ELSE decode_length(bytes, at + 1, multiplier * 128, v, len + 1)

\* encode_length : the buffer after the loop; it returns as soon as the
\* buffer, whatever it held before, holds MAX_ENCODED_BYTES bytes
RECURSIVE encode_length(_, _)
encode_length(mlen, bytes) ==
    IF Len(bytes) + 1 > MAX_ENCODED_BYTES THEN bytes
    ELSE LET rest == mlen \div 128
             d == (mlen % 128) + (IF rest > 0 THEN 128 ELSE 0)
         IN IF rest = 0 THEN Append(bytes, d)
            ELSE encode_length(rest, Append(bytes, d))

\* unpack_u16 : the next two bytes, big-endian
unpack_u16(bytes, at) ==
    LET taken == Take(bytes, at, 2)
    IN IF Len(taken) # 2 THEN Err("RequiredByteMissing")
       ELSE [ok |-> TRUE, value |-> taken[1] * 256 + taken[2], at |-> at + 2]

\* BufMut::put_u16 : big-endian, the value truncated to 16 bits by `as u16`
put_u16(bytes, value) ==
    bytes \o <<(value % 65536) \div 256, value % 256>>

\* unpack_bytes : the next len bytes, or those that are left; a wrapped
\* length exceeds every buffer
unpack_bytes(bytes, at, len) ==
    LET taken == Take(bytes, at, IF len < 0 THEN Len(bytes) ELSE len)
    IN [ok |-> TRUE, value |-> taken, at |-> at + Len(taken)]

\* unpack_string_with_len
unpack_string_with_len(bytes, at, len) ==
    IF len = 0 THEN [ok |-> TRUE, value |-> <<>>, at |-> at]
    ELSE LET chars == Take(bytes, at, len)
         IN IF from_utf8(chars)
            THEN [ok |-> TRUE, value |-> chars, at |-> at + Len(chars)]
            ELSE Err("MalformedString")

\* unpack_string : a u16 length, then the string
unpack_string(bytes, at) ==
    Try(unpack_u16(bytes, at),
        LAMBDA len : unpack_string_with_len(bytes, len.at, len.value))

\* put_u16(s.len() as u16) then put(s.as_bytes())
put_string(bytes, s) == put_u16(bytes, Len(s)) \o s

\* FixedHeader::new
FixedHeaderNew(packet_type, dup, qos, retain, len) ==
    [flags |-> (IF retain THEN 1 ELSE 0) + qos * 2 + (IF dup THEN 8 ELSE 0)
               + packet_type * 16,
     remaining_len |-> len]

get_packet_type(fixed) == PacketTypeOf(fixed.flags \div 16)

get_dup(fixed) == Bit(fixed.flags, 3)

get_qos(fixed) == QosLevelOf((fixed.flags \div 2) % 4)

get_retain(fixed) == Bit(fixed.flags, 0)

\* the operators of u8: &, |, ! and <<
BitAnd(a, b) ==
    LET bit(i) == IF Bit(a, i) /\ Bit(b, i) THEN 2 ^ i ELSE 0
    IN bit(0) + bit(1) + bit(2) + bit(3) + bit(4) + bit(5) + bit(6) + bit(7)

BitOr(a, b) ==
    LET bit(i) == IF Bit(a, i) \/ Bit(b, i) THEN 2 ^ i ELSE 0
    IN bit(0) + bit(1) + bit(2) + bit(3) + bit(4) + bit(5) + bit(6) + bit(7)

BitNot(a) == 255 - a

Shl(a, n) == (a * 2 ^ n) % 256

\* self.flags &= !(0xF0 << 4); self.flags |= (value as u8) << 4;
set_packet_type(fixed, value) ==
    [fixed EXCEPT !.flags = BitOr(BitAnd(@, BitNot(Shl(240, 4))), Shl(value, 4))]

\* self.flags &= !(1 << 3); self.flags |= (value as u8) << 3;
set_dup(fixed, value) ==
    [fixed EXCEPT !.flags = BitOr(BitAnd(@, BitNot(Shl(1, 3))),
                                  Shl(IF value THEN 1 ELSE 0, 3))]

\* self.flags &= !(2 << 1); self.flags |= (value as u8) << 1;
set_qos(fixed, value) ==
    [fixed EXCEPT !.flags = BitOr(BitAnd(@, BitNot(Shl(2, 1))), Shl(value, 1))]

\* self.flags &= !(1 << 0); self.flags |= value as u8
set_retain(fixed, value) ==
    [fixed EXCEPT !.flags = BitOr(BitAnd(@, BitNot(Shl(1, 0))),
                                  IF value THEN 1 ELSE 0)]

\* FixedHeader::from_bytes : the flags byte, then the remaining length
FixedHeaderFromBytes(bytes) ==
    IF bytes = <<>> THEN Err("RequiredByteMissing")
    ELSE Try(decode_length(bytes, 2, 1, 0, 0),
             LAMBDA rl : [ok |-> TRUE,
                          value |-> [flags |-> bytes[1], remaining_len |-> rl.value],
                          rl_len |-> rl.len,
                          at |-> 2 + rl.len])

\* connect::Flags
FlagsNew(clean_session, will, will_qos, will_retain, password, username) ==
    (IF clean_session THEN 2 ELSE 0) + (IF will THEN 4 ELSE 0) + will_qos * 8
    + (IF will_retain THEN 32 ELSE 0) + (IF password THEN 64 ELSE 0)
    + (IF username THEN 128 ELSE 0)

clean_session(flags) == Bit(flags, 1)

will(flags) == Bit(flags, 2)

has_password(flags) == Bit(flags, 6)

has_username(flags) == Bit(flags, 7)

\* Flags::validate_flags is called by the decoder and defined nowhere in
\* the sources; by the specification a set bit 0 is a malformed header
validate_flags(flags) == Bit(flags, 0)

\* b"MQTT"
MQTT == <<77, 81, 84, 84>>

\* uuid::Uuid::new_v4().to_string() : an identifier the server makes up
GeneratedClientId == <<117, 117, 105, 100>>

\* The two builds of the crate: with the overflow checks of the dev
\* profile and without them
Builds == {"debug", "release"}

\* the thread panics: 'attempt to subtract with overflow'
Panic == Err("panicked")

\* `len -= n` on a usize.  Below zero a debug build panics and a release
\* build wraps; the wrapped value 2^64 + d is written d < 0: it is not 0,
\* exceeds the length of every buffer and stays above 0 whatever the
\* decoder subtracts afterwards
Sub(build, len, n, F(_)) ==
    IF len - n < 0 /\ build = "debug" THEN Panic ELSE F(len - n)

\* the identifiers of the MQTT 5 properties by the type of their value
ByteProps == {1, 23, 25, 36, 37, 40, 41, 42}

TwoByteProps == {19, 33, 34, 35}

FourByteProps == {2, 17, 24, 39}

BinaryProps == {9, 22}

StringProps == {3, 8, 18, 21, 26, 28, 31}

\* unpack_u32
unpack_u32(bytes, at) ==
    IF Len(Take(bytes, at, 4)) # 4 THEN Err("MissingByte")
    ELSE [ok |-> TRUE, at |-> at + 4]

\* the value of the property with identifier `byte` is read at position
\* `at`: where the next property starts and what the value takes from
\* props_len
PropertyValue(bytes, at, byte) ==
    CASE byte \in ByteProps ->
             IF at > Len(bytes) THEN Err("MissingByte")
             ELSE IF byte \in {23, 25} /\ bytes[at] > 1
             THEN Err("ProtocolViolation")
             ELSE [ok |-> TRUE, at |-> at + 1, size |-> 1]
      [] byte \in TwoByteProps ->
             Try(unpack_u16(bytes, at),
                 LAMBDA data : [ok |-> TRUE, at |-> data.at, size |-> 2])
      [] byte \in FourByteProps ->
             Try(unpack_u32(bytes, at),
                 LAMBDA data : [ok |-> TRUE, at |-> data.at, size |-> 4])
      [] byte = 11 ->
             Try(decode_length(bytes, at, 1, 0, 0),
                 LAMBDA data : [ok |-> TRUE, at |-> at + data.len, size |-> data.len])
      [] byte \in BinaryProps ->
             Try(unpack_u16(bytes, at), LAMBDA len :
                 LET data == unpack_bytes(bytes, len.at, len.value)
                 IN [ok |-> TRUE, at |-> data.at, size |-> 2 + Len(data.value)])
      [] byte \in StringProps ->
             Try(unpack_string(bytes, at), LAMBDA data :
                 [ok |-> TRUE, at |-> data.at, size |-> 2 + Len(data.value)])
      [] byte = 38 ->
             Try(unpack_string(bytes, at), LAMBDA key :
             Try(unpack_string(bytes, key.at), LAMBDA value :
                 [ok |-> TRUE, at |-> value.at,
                  size |-> 4 + Len(value.value) + Len(key.value)]))
      [] OTHER -> Err("MalformedHeader")

\* one turn of the loop of unpack_properties: the identifier, the value,
\* `props_len -= ..`, then the test that the property was not there before.
\* A one-byte property is tested before the subtraction, a user property
\* (38) never
Property(bytes, at, props_len, seen, build) ==
    IF at > Len(bytes) THEN Err("MissingByte")
    ELSE LET byte == bytes[at]
             twice == byte \in seen /\ byte # 38
         IN Try(PropertyValue(bytes, at + 1, byte), LAMBDA value :
                IF byte \in ByteProps /\ twice THEN Err("ProtocolViolation")
                ELSE Sub(build, props_len, value.size, LAMBDA len :
                         IF twice THEN Err("ProtocolViolation")
                         ELSE [ok |-> TRUE, at |-> value.at, len |-> len,
                               seen |-> seen \cup {byte}]))

\* while props_len > 0
RECURSIVE Properties(_, _, _, _, _)
Properties(bytes, at, props_len, seen, build) ==
    IF props_len = 0 THEN [ok |-> TRUE, at |-> at]
    ELSE Try(Property(bytes, at, props_len, seen, build), LAMBDA p :
             Properties(bytes, p.at, p.len, p.seen, build))

\* unpack_properties : the length of the properties, then the properties;
\* what they hold is not kept in the packet
unpack_properties(bytes, at, build) ==
    Try(decode_length(bytes, at, 1, 0, 0), LAMBDA len :
        Properties(bytes, at + len.len, len.value, {}, build))

\* the rest of the Connect arm of VariableHeader::unpack, after the test of
\* the protocol level
ConnectBody(bytes, at, protocol_version, build) ==
    IF at > Len(bytes) THEN Err("RequiredByteMissing")
    ELSE IF validate_flags(bytes[at]) THEN Err("MalformedHeader")
    ELSE LET flags == bytes[at]
             Opt(present, from) ==
                 IF present
                 THEN Try(unpack_string(bytes, from),
                          LAMBDA str : [ok |-> TRUE, value |-> Some(str.value),
                                        at |-> str.at])
                 ELSE [ok |-> TRUE, value |-> None, at |-> from]
             Props(present, from) ==
                 IF present /\ protocol_version = "Five"
                 THEN unpack_properties(bytes, from, build)
                 ELSE [ok |-> TRUE, at |-> from]
         IN
         Try(unpack_u16(bytes, at + 1), LAMBDA keep :
         Try(Props(TRUE, keep.at), LAMBDA props :
         Try(unpack_string(bytes, props.at), LAMBDA id :
         IF id.value = <<>> /\ ~clean_session(flags)
         THEN Err("ClientIdentifierRejected")
         ELSE
         Try(Props(will(flags), id.at), LAMBDA will_props :
         Try(Opt(will(flags), will_props.at), LAMBDA wt :
         Try(Opt(will(flags), wt.at), LAMBDA wm :
         Try(Opt(has_username(flags), wm.at), LAMBDA usr :
         Try(Opt(has_password(flags), usr.at), LAMBDA psd :
             [ok |-> TRUE,
              value |-> [kind |-> "Connect",
                         flags |-> flags,
                         keepalive |-> keep.value,
                         client_id |-> IF id.value = <<>>
                                       THEN GeneratedClientId ELSE id.value,
                         username |-> usr.value,
                         password |-> psd.value,
                         will_topic |-> wt.value,
                         will_message |-> wm.value,
                         protocol_version |-> protocol_version]]))))))))

\* the Connect arm of VariableHeader::unpack.  The level is refused when it
\* differs from Four or differs from Five
ConnectArm(bytes, at, build) ==
    Try(unpack_string(bytes, at), LAMBDA protocal_name :
        IF protocal_name.value # MQTT THEN Err("UnknownProtocol")
        ELSE IF protocal_name.at > Len(bytes) THEN Err("RequiredByteMissing")
        ELSE LET protocol_version == ProtocalVersionFrom(bytes[protocal_name.at])
             IN IF protocol_version # "Four" \/ protocol_version # "Five"
                THEN Err("UnacceptableProtocolLevel")
                ELSE ConnectBody(bytes, protocal_name.at + 1, protocol_version,
                                 build))

\* the Connack arm
ConnackArm(bytes, at) ==
    IF at > Len(bytes) \/ at + 1 > Len(bytes) THEN Err("MissingByte")
    ELSE LET rc == ConnectReturnCodeOf(bytes[at + 1])
         IN IF rc = None THEN Err("Convertion")
            ELSE [ok |-> TRUE,
                  value |-> [kind |-> "ConnAck",
                             acknowledge_flags |-> bytes[at],
                             return_code |-> rc[1]]]

\* the Publish arm
PublishArm(bytes, at, fixed, build) ==
    Try(unpack_string(bytes, at), LAMBDA topic :
        LET qos == get_qos(fixed) IN
        IF qos = None THEN Err("Convertion")
        ELSE
        Try(IF qos[1] > 0 THEN unpack_u16(bytes, topic.at)
            ELSE [ok |-> TRUE, at |-> topic.at],
            LAMBDA id :
            Sub(build, fixed.remaining_len, IF qos[1] > 0 THEN 2 ELSE 0,
                LAMBDA after_id :
            Sub(build, after_id, 2 + Len(topic.value), LAMBDA len :
                [ok |-> TRUE,
                 value |-> [kind |-> "Publish",
                            topic |-> topic.value,
                            packet_id |-> IF qos[1] > 0 THEN Some(id.value)
                                          ELSE None,
                            payload |-> unpack_bytes(bytes, id.at, len).value]]))))

\* the arms of PubAck, PubRec, PubRel, PubComp and UnsubAck
PacketIdArm(bytes, at, kind) ==
    Try(unpack_u16(bytes, at),
        LAMBDA id : [ok |-> TRUE, value |-> [kind |-> kind, packet_id |-> id.value]])

\* the loop of the Subscribe arm over the (topic filter, qos) pairs
RECURSIVE SubscribeTuples(_, _, _, _, _)
SubscribeTuples(bytes, at, len, tuples, build) ==
    IF len = 0 THEN [ok |-> TRUE, value |-> tuples]
    ELSE Try(unpack_string(bytes, at), LAMBDA topic :
         Sub(build, len, Len(topic.value) + 2, LAMBDA after_topic :
             IF topic.at > Len(bytes) THEN Err("MalformedHeader")
             ELSE LET qos == QosLevelOf(bytes[topic.at])
                  IN IF qos = None THEN Err("Convertion")
                     ELSE Sub(build, after_topic, 1, LAMBDA after_qos :
                              SubscribeTuples(bytes, topic.at + 1, after_qos,
                                              Append(tuples, <<topic.value, qos[1]>>),
                                              build))))

\* the Subscribe arm
SubscribeArm(bytes, at, fixed, build) ==
    LET qos == get_qos(fixed)
    IN IF ~get_dup(fixed) /\ qos = None THEN Err("Convertion")
       ELSE IF ~get_dup(fixed) /\ qos[1] # 1 /\ get_retain(fixed)
       THEN Err("MalformedHeader")
       ELSE
       Try(unpack_u16(bytes, at), LAMBDA packet_id :
       Sub(build, fixed.remaining_len, 2, LAMBDA len :
       Try(SubscribeTuples(bytes, packet_id.at, len, <<>>, build),
           LAMBDA tuples :
               IF tuples.value = <<>> THEN Err("ProtocolViolation")
               ELSE [ok |-> TRUE,
                     value |-> [kind |-> "Subscribe",
                                packet_id |-> packet_id.value,
                                tuples |-> tuples.value]])))

\* the loop of the SubAck arm over the return codes
RECURSIVE SubackCodes(_, _, _, _)
SubackCodes(bytes, at, len, return_codes) ==
    IF len = 0 THEN [ok |-> TRUE, value |-> return_codes]
    ELSE IF at > Len(bytes) THEN Err("MissingByte")
    ELSE LET code == SubackReturnCodeOf(bytes[at])
         IN IF code = None THEN Err("Convertion")
            ELSE SubackCodes(bytes, at + 1, len - 1, Append(return_codes, code[1]))

\* the SubAck arm
SubackArm(bytes, at, fixed, build) ==
    Try(unpack_u16(bytes, at), LAMBDA packet_id :
    Sub(build, fixed.remaining_len, 2, LAMBDA len :
    Try(SubackCodes(bytes, packet_id.at, len, <<>>),
        LAMBDA codes : [ok |-> TRUE,
                        value |-> [kind |-> "SubAck",
                                   packet_id |-> packet_id.value,
                                   return_codes |-> codes.value]])))

\* the loop of the Unsubscribe arm over the topic filters
RECURSIVE UnsubscribeTuples(_, _, _, _, _)
UnsubscribeTuples(bytes, at, len, tuples, build) ==
    IF len = 0 THEN [ok |-> TRUE, value |-> tuples]
    ELSE Sub(build, len, 2, LAMBDA after_len :
         Try(unpack_string(bytes, at), LAMBDA topic :
         Sub(build, after_len, Len(topic.value), LAMBDA after_topic :
             UnsubscribeTuples(bytes, topic.at, after_topic,
                               Append(tuples, topic.value), build))))

\* the Unsubscribe arm
UnsubscribeArm(bytes, at, fixed, build) ==
    Try(unpack_u16(bytes, at), LAMBDA packet_id :
    Sub(build, fixed.remaining_len, 2, LAMBDA len :
    Try(UnsubscribeTuples(bytes, packet_id.at, len, <<>>, build),
        LAMBDA tuples : [ok |-> TRUE,
                         value |-> [kind |-> "Unsubscribe",
                                    packet_id |-> packet_id.value,
                                    tuples |-> tuples.value]])))

\* the arms of VariableHeader::unpack other than Connect
OtherArms(bytes, at, fixed, type, build) ==
    CASE type = CONNACK -> ConnackArm(bytes, at)
      [] type = PUBLISH -> PublishArm(bytes, at, fixed, build)
      [] type = PUBACK -> PacketIdArm(bytes, at, "PubAck")
      [] type = PUBREC -> PacketIdArm(bytes, at, "PubRec")
      [] type = PUBREL -> PacketIdArm(bytes, at, "PubRel")
      [] type = PUBCOMP -> PacketIdArm(bytes, at, "PubComp")
      [] type = SUBSCRIBE -> SubscribeArm(bytes, at, fixed, build)
      [] type = SUBACK -> SubackArm(bytes, at, fixed, build)
      [] type = UNSUBSCRIBE -> UnsubscribeArm(bytes, at, fixed, build)
      [] type = UNSUBACK -> PacketIdArm(bytes, at, "UnsubAck")
      [] type = PINGREQ -> [ok |-> TRUE, value |-> [kind |-> "PingReq"]]
      [] type = PINGRESP -> [ok |-> TRUE, value |-> [kind |-> "PingResp"]]
      [] type = DISCONNECT -> [ok |-> TRUE, value |-> [kind |-> "Disconnect"]]

\* VariableHeader::unpack
VariableHeaderUnpack(bytes, at, fixed, build) ==
    LET type == get_packet_type(fixed)
    IN IF type = None THEN Err("Convertion")
       ELSE IF type[1] = CONNECT THEN ConnectArm(bytes, at, build)
       ELSE OtherArms(bytes, at, fixed, type[1], build)

\* the loop of VariableHeader::pack over the pairs of a Subscribe
RECURSIVE PackSubscribeTuples(_, _)
PackSubscribeTuples(bytes, tuples) ==
    IF tuples = <<>> THEN bytes
    ELSE PackSubscribeTuples(Append(put_string(bytes, Head(tuples)[1]),
                                    Head(tuples)[2]),
                             Tail(tuples))

\* the loop of VariableHeader::pack over the filters of an Unsubscribe
RECURSIVE PackUnsubscribeTuples(_, _)
PackUnsubscribeTuples(bytes, tuples) ==
    IF tuples = <<>> THEN bytes
    ELSE PackUnsubscribeTuples(put_string(bytes, Head(tuples)), Tail(tuples))

PutOption(bytes, flag, option) ==
    IF flag /\ option # None THEN put_string(bytes, option[1]) ELSE bytes

\* VariableHeader::pack
VariableHeaderPack(v) ==
    CASE v.kind = "Connect" ->
             LET head == put_string(put_u16(
                             Append(Append(put_string(<<>>, MQTT),
                                           ProtocalVersionInto(v.protocol_version)),
                                    v.flags),
                             v.keepalive), v.client_id)
                 wt == PutOption(head, will(v.flags), v.will_topic)
                 wm == PutOption(wt, will(v.flags), v.will_message)
                 usr == PutOption(wm, has_username(v.flags), v.username)
             IN PutOption(usr, has_password(v.flags), v.password)
      [] v.kind = "ConnAck" -> <<v.acknowledge_flags, v.return_code>>
      [] v.kind = "Subscribe" ->
             PackSubscribeTuples(put_u16(<<>>, v.packet_id), v.tuples)
      [] v.kind = "Unsubscribe" ->
             PackUnsubscribeTuples(put_u16(<<>>, v.packet_id), v.tuples)
      [] v.kind = "Publish" ->
             (IF v.packet_id # None
              THEN put_u16(put_string(<<>>, v.topic), v.packet_id[1])
              ELSE put_string(<<>>, v.topic)) \o v.payload
      [] v.kind = "SubAck" -> put_u16(<<>>, v.packet_id) \o v.return_codes
      [] v.kind \in {"Disconnect", "Auth"} -> <<>>
      [] v.kind \in {"UnsubAck", "PubComp", "PubRel", "PubRec", "PubAck"} ->
             put_u16(<<>>, v.packet_id)
      [] v.kind \in {"PingReq", "PingResp"} -> <<>>

\* Packet::pack : the flags byte, the length of the variable part, the
\* variable part
pack(packet) ==
    LET variable == VariableHeaderPack(packet.variable)
    IN encode_length(Len(variable), <<packet.fixed.flags>>) \o variable

\* FixedHeader::get_rl_len : the bytes the remaining length took in the
\* input, so that the length unpack returns is the number of bytes consumed
get_rl_len(fixed) == fixed.rl_len

\* Packet::unpack : the packet at the start of the buffer and its length,
\* in a build of the crate
unpack(bytes, build) ==
    Try(FixedHeaderFromBytes(bytes), LAMBDA fixed :
    Try(VariableHeaderUnpack(bytes, fixed.at, fixed.value, build), LAMBDA variable :
        [ok |-> TRUE,
         packet |-> [fixed |-> fixed.value, variable |-> variable.value],
         len |-> fixed.value.remaining_len + get_rl_len(fixed) + 1]))

----------------------------------------------------------------------------
(* A connection: handle_read_stream *)

Push(q, c, packet) == [q EXCEPT ![c] = Append(@, packet)]

\* keepalive_duration: 60 until a CONNECT is accepted, then the keepalive
\* of the CONNECT plus 4
InitialKeepalive == 60

KeepaliveSlack == 4

KeepaliveDuration(k) == k + KeepaliveSlack

\* keepalive.as_mut().reset(Instant::now() + Duration::from_secs(duration))
Reset(duration) == now + duration

\* `break` out of the read loop: token.cancel() runs, then DisconnectClient
\* is sent when a ClientId was recorded
Break(c, newCid) ==
    /\ token' = [token EXCEPT ![c] = TRUE]
    /\ readPc' = [readPc EXCEPT ![c] = IF newCid # None THEN "cleanup" ELSE "done"]

\* `?` leaves the function at once; the `return Err(ProtocolViolation)` of
\* the CONNECT arm does the same and is the position "violation"
EarlyReturn(c) == readPc' = [readPc EXCEPT ![c] = "early"]

CanRead(c) == readPc[c] = "select" /\ packetsLeft[c] > 0

\* the Connect arm of the read loop, for the fields of the decoded CONNECT
PacketConnect(c, id, clean, k) ==
    /\ CanRead(c)
    /\ packetsLeft' = [packetsLeft EXCEPT ![c] = @ - 1]
    /\ IF seenConnect[c]
       THEN /\ readPc' = [readPc EXCEPT ![c] = "violation"]
            /\ UNCHANGED <<cid, commands, token, bodyKeepalive>>
       ELSE /\ CommandSendCompletes
            /\ bodyKeepalive' = [bodyKeepalive EXCEPT ![c] = k]
            /\ cid' = [cid EXCEPT ![c] = Some(id)]
            /\ commands' = CommandSend(commands, CommandRegisterClient(c, id, clean))
            /\ IF BrokerGone
               THEN Break(c, Some(id))
               ELSE /\ readPc' = [readPc EXCEPT ![c] = "await_register"]
                    /\ UNCHANGED token
    /\ UNCHANGED <<subscriptions, treeOps, lastGet, sessions, nextIdent,
                   brokerPc, pending>>
    /\ UNCHANGED <<seenConnect, body, reply, events, mhPc, queue, whPc,
                   written, writing, sockShut>>
    /\ UNCHANGED <<extCancelled, pubSeq, scenario, profile, callVars, histVars>>
    /\ UNCHANGED <<now, keepalive, keepalive_duration>>

read_Connect(c) ==
    \E id \in ConnectIds(c), clean \in CleanFlags(c), k \in Keepalives(c) :
        /\ PacketConnect(c, id, clean, k)
        /\ UNCHANGED wireVars

\* the connections that hold a SUBACK for a filter matching the topic
Entitled(topic, publisher) ==
    {a \in Conns \ {publisher} : \E f \in granted[a] : MqttMatches(f, topic)}

\* a variant of PublishAck that answers QoS 2 like QoS 1
PublishAckOnly(qos) == "PUBACK"

PublishAck(qos) == IF qos = 1 THEN "PUBACK" ELSE "PUBREC"

\* the Publish arm of the read loop, for the fields of the decoded PUBLISH
PacketPublishOf(c, topic, qos, packet_id, payload) ==
    /\ CanRead(c)
    /\ packetsLeft' = [packetsLeft EXCEPT ![c] = @ - 1]
    /\ pubSeq' = pubSeq + 1
    /\ IF BrokerGone
       THEN /\ EarlyReturn(c)
            /\ UNCHANGED <<commands, queue>>
       ELSE /\ CommandSendCompletes
            /\ commands' = Append(commands,
                   CommandPublish(c, topic, payload, Entitled(topic, c)))
            /\ queue' = IF qos = 0 THEN queue
                        ELSE Push(queue, c, make_ack(PublishAck(qos), packet_id))
            /\ UNCHANGED readPc
    /\ UNCHANGED <<subscriptions, treeOps, lastGet, sessions, nextIdent,
                   brokerPc, pending>>
    /\ UNCHANGED <<cid, seenConnect, body, reply, token, events, mhPc, whPc,
                   written, writing, sockShut>>
    /\ UNCHANGED <<extCancelled, scenario, profile, callVars, timeVars, histVars>>

\* the Publish arm for a PUBLISH whose payload names its publisher, its
\* place among the PUBLISH packets of the run and its QoS
PacketPublish(c, topic, qos, packet_id) ==
    PacketPublishOf(c, topic, qos, packet_id, <<c, pubSeq + 1, qos>>)

read_Publish(c) ==
    \E topic \in PublishTopics(c), qos \in PublishQos(c), packet_id \in PacketIds(c) :
        /\ PacketPublish(c, topic, qos, packet_id)
        /\ UNCHANGED wireVars

\* the Disconnect arm of the read loop: `break`
PacketDisconnect(c) ==
    /\ CanRead(c)
    /\ packetsLeft' = [packetsLeft EXCEPT ![c] = @ - 1]
    /\ Break(c, cid[c])
    /\ UNCHANGED <<treeVars, brokerVars>>
    /\ UNCHANGED <<cid, seenConnect, body, reply, events, mhPc, queue, whPc,
                   written, writing, sockShut>>
    /\ UNCHANGED <<extCancelled, pubSeq, scenario, profile, callVars, timeVars, histVars>>

read_Disconnect(c) ==
    /\ Closes(c)
    /\ PacketDisconnect(c)
    /\ UNCHANGED wireVars

\* SUBSCRIBE and UNSUBSCRIBE: without a ClientId the `?` returns; otherwise
\* the command is sent and the reply awaited
read_SubscribeOrUnsubscribe(c, type, topics) ==
    /\ CanRead(c)
    /\ packetsLeft' = [packetsLeft EXCEPT ![c] = @ - 1]
    /\ body' = [body EXCEPT ![c] = topics]
    /\ IF cid[c] = None
       THEN /\ EarlyReturn(c)
            /\ UNCHANGED <<commands, token>>
       ELSE /\ CommandSendCompletes
            /\ commands' = CommandSend(commands,
                   IF type = "Subscribe"
                   THEN CommandSubscribe(c, cid[c][1], topics)
                   ELSE CommandUnsubscribe(c, cid[c][1], topics))
            /\ IF BrokerGone
               THEN Break(c, cid[c])
               ELSE /\ readPc' = [readPc EXCEPT ![c] =
                          IF type = "Subscribe" THEN "await_subscribe"
                          ELSE "await_unsubscribe"]
                    /\ UNCHANGED token
    /\ UNCHANGED <<subscriptions, treeOps, lastGet, sessions, nextIdent,
                   brokerPc, pending>>
    /\ UNCHANGED <<cid, seenConnect, reply, events, mhPc, queue, whPc, written, writing, sockShut>>
    /\ UNCHANGED <<extCancelled, pubSeq, scenario, profile, callVars, timeVars, disconnectSent, lastPublish>>

\* the Subscribe arm of the read loop, for the tuples of the decoded
\* SUBSCRIBE
PacketSubscribe(c, topics) ==
    /\ read_SubscribeOrUnsubscribe(c, "Subscribe", topics)
    /\ UNCHANGED granted

\* the Unsubscribe arm of the read loop, for the filters of the decoded
\* UNSUBSCRIBE, each held as a tuple with QoS 0
PacketUnsubscribe(c, topics) ==
    /\ read_SubscribeOrUnsubscribe(c, "Unsubscribe", topics)
    /\ granted' = [granted EXCEPT ![c] =
                      @ \ {topics[i][1] : i \in 1..Len(topics)}]

read_Subscribe(c) ==
    \E topics \in SubLists(c) :
        /\ PacketSubscribe(c, topics)
        /\ UNCHANGED wireVars

read_Unsubscribe(c) ==
    \E topics \in UnsubLists(c) :
        /\ PacketUnsubscribe(c, topics)
        /\ UNCHANGED wireVars

\* the reply of the broker arrives
read_Reply(c) ==
    /\ readPc[c] \in {"await_register", "await_subscribe", "await_unsubscribe"}
    /\ reply[c] # None
    /\ reply' = [reply EXCEPT ![c] = None]
    /\ IF reply[c][1].status = "Ok"
       THEN /\ readPc' = [readPc EXCEPT ![c] = "select"]
            /\ seenConnect' = [seenConnect EXCEPT ![c] =
                                  @ \/ readPc[c] = "await_register"]
            /\ IF readPc[c] = "await_register"
               THEN /\ keepalive_duration' = [keepalive_duration EXCEPT ![c] =
                           KeepaliveDuration(bodyKeepalive[c])]
                    /\ keepalive' = [keepalive EXCEPT ![c] =
                           Reset(KeepaliveDuration(bodyKeepalive[c]))]
               ELSE UNCHANGED <<keepalive, keepalive_duration>>
            /\ queue' = Push(queue, c,
                   CASE readPc[c] = "await_register" -> make_connack(Accepted)
                     [] readPc[c] = "await_subscribe" ->
                            make_suback(body[c], reply[c][1].codes)
                     [] OTHER -> make_simple("UNSUBACK"))
       ELSE /\ EarlyReturn(c)
            /\ UNCHANGED <<seenConnect, queue, keepalive, keepalive_duration>>
    /\ UNCHANGED <<treeVars, brokerVars>>
    /\ UNCHANGED <<cid, token, events, mhPc, whPc, written, writing, sockShut, body>>
    /\ UNCHANGED <<extCancelled, packetsLeft, pubSeq, scenario, profile, callVars, wireVars, histVars>>
    /\ UNCHANGED <<now, bodyKeepalive>>

\* PINGREQ, PUBREC and PUBREL are answered; PUBACK and PUBCOMP are not
SimpleTypes == {"PINGREQ"}

AckTypes == {"PUBACK", "PUBREC", "PUBREL", "PUBCOMP"}

\* the packets without a payload that the client of a connection sends
InboundTypes(c) == IF Handshake(c) THEN AckTypes ELSE SimpleTypes

Answer(type) ==
    CASE type = "PINGREQ" -> "PINGRESP"
      [] type = "PUBREC" -> "PUBREL"
      [] type = "PUBREL" -> "PUBCOMP"
      [] OTHER -> "NONE"

\* the arms of PingReq, PubAck, PubRec, PubRel and PubComp
PacketSimple(c, type, packet_id) ==
    /\ CanRead(c)
    /\ packetsLeft' = [packetsLeft EXCEPT ![c] = @ - 1]
    /\ queue' = CASE Answer(type) = "NONE" -> queue
                  [] Answer(type) = "PINGRESP" ->
                         Push(queue, c, make_simple(Answer(type)))
                  [] OTHER -> Push(queue, c, make_ack(Answer(type), packet_id))
    /\ keepalive' = IF type = "PINGREQ"
                    THEN [keepalive EXCEPT ![c] = Reset(keepalive_duration[c])]
                    ELSE keepalive
    /\ UNCHANGED <<treeVars, brokerVars>>
    /\ UNCHANGED <<readPc, cid, seenConnect, body, reply, token, events, mhPc,
                   whPc, written, writing, sockShut>>
    /\ UNCHANGED <<extCancelled, pubSeq, scenario, profile, callVars, histVars>>
    /\ UNCHANGED <<now, keepalive_duration, bodyKeepalive>>

read_Simple(c) ==
    \E type \in InboundTypes(c), packet_id \in PacketIds(c) :
        /\ Closes(c) \/ Timed(c) \/ Handshake(c)
        /\ PacketSimple(c, type, packet_id)
        /\ UNCHANGED wireVars

\* the last arm of the read loop, for CONNACK, SUBACK, UNSUBACK or PINGRESP
\* from a client: unreachable!() panics
PacketServer(c) ==
    /\ CanRead(c)
    /\ packetsLeft' = [packetsLeft EXCEPT ![c] = @ - 1]
    /\ readPc' = [readPc EXCEPT ![c] = "panicked"]
    /\ UNCHANGED <<treeVars, brokerVars>>
    /\ UNCHANGED <<cid, seenConnect, body, reply, token, events, mhPc, queue,
                   whPc, written, writing, sockShut>>
    /\ UNCHANGED <<extCancelled, pubSeq, scenario, profile, callVars, timeVars, histVars>>

read_ServerPacket(c) ==
    /\ Closes(c)
    /\ PacketServer(c)
    /\ UNCHANGED wireVars

\* Packet::unpack fails: UnacceptableProtocolLevel queues CONNACK rc=1, any
\* other error is kept as the output; both leave the loop by `break`
UnpackFailed(c, err) ==
    /\ CanRead(c)
    /\ packetsLeft' = [packetsLeft EXCEPT ![c] = @ - 1]
    /\ queue' = IF err = "UnacceptableProtocolLevel"
                THEN Push(queue, c, make_connack(V4UnacceptableProtocal))
                ELSE queue
    /\ Break(c, cid[c])
    /\ UNCHANGED <<treeVars, brokerVars>>
    /\ UNCHANGED <<cid, seenConnect, body, reply, events, mhPc, whPc, written,
                   writing, sockShut>>
    /\ UNCHANGED <<extCancelled, pubSeq, scenario, profile, callVars, timeVars, histVars>>

\* the errors of Packet::unpack that the model tells apart by their effect
UnpackErrors == {"UnacceptableProtocolLevel", "MalformedHeader"}

read_Malformed(c) ==
    \E err \in UnpackErrors :
        /\ Closes(c)
        /\ UnpackFailed(c, err)
        /\ UNCHANGED wireVars

\* Packet::unpack panics: the read task ends there, nothing after the call
\* runs
UnpackPanicked(c) ==
    /\ CanRead(c)
    /\ packetsLeft' = [packetsLeft EXCEPT ![c] = @ - 1]
    /\ readPc' = [readPc EXCEPT ![c] = "panicked"]
    /\ UNCHANGED <<treeVars, brokerVars>>
    /\ UNCHANGED <<cid, seenConnect, body, reply, token, events, mhPc, queue,
                   whPc, written, writing, sockShut>>
    /\ UNCHANGED <<extCancelled, pubSeq, scenario, profile, callVars, timeVars, histVars>>

\* the packets without a payload, by the variant Packet::unpack returns
SimpleType(kind) ==
    CASE kind = "PingReq" -> "PINGREQ" [] kind = "PubAck" -> "PUBACK"
      [] kind = "PubRec" -> "PUBREC" [] kind = "PubRel" -> "PUBREL"
      [] kind = "PubComp" -> "PUBCOMP"

\* the arm of the read loop that a decoded packet takes
PacketArm(c, fixed, variable) ==
    CASE variable.kind = "Connect" ->
             PacketConnect(c, variable.client_id, clean_session(variable.flags),
                           variable.keepalive)
      [] variable.kind = "Publish" ->
             PacketPublishOf(c, variable.topic, get_qos(fixed)[1],
                             IF variable.packet_id = None THEN 0
                             ELSE variable.packet_id[1],
                             variable.payload)
      [] variable.kind = "Disconnect" -> PacketDisconnect(c)
      [] variable.kind = "Subscribe" -> PacketSubscribe(c, variable.tuples)
      [] variable.kind = "Unsubscribe" ->
             PacketUnsubscribe(c, [i \in 1..Len(variable.tuples) |->
                                      <<variable.tuples[i], 0>>])
      [] variable.kind = "PingReq" -> PacketSimple(c, "PINGREQ", 0)
      [] variable.kind \in {"PubAck", "PubRec", "PubRel", "PubComp"} ->
             PacketSimple(c, SimpleType(variable.kind), variable.packet_id)
      [] OTHER -> PacketServer(c)

\* what one turn of the read loop does with the bytes of a read: the result
\* of Packet::unpack is kept, then the arm of the packet runs, or the error
\* ends the loop and is what the read handler returns
read_Unpacked(c, result) ==
    /\ inbound' = Tail(inbound)
    /\ decoded' = Append(decoded, result)
    /\ IF result.ok THEN PacketArm(c, result.packet.fixed, result.packet.variable)
       ELSE IF result = Panic THEN UnpackPanicked(c)
       ELSE UnpackFailed(c, result.err)

\* one turn of the read loop on the bytes of a CONNECT: Packet::unpack,
\* then the Connect arm or the handling of the error
read_Packet(c) ==
    /\ scenario = "connect"
    /\ c = 1
    /\ inbound # <<>>
    /\ read_Unpacked(c, unpack(Head(inbound), profile))
    /\ UNCHANGED <<sent, callVars>>

\* the `keepalive` sleep completes: `break`
read_KeepaliveTimeout(c) ==
    /\ readPc[c] = "select"
    /\ now >= keepalive[c]
    /\ Break(c, cid[c])
    /\ UNCHANGED <<treeVars, brokerVars>>
    /\ UNCHANGED <<cid, seenConnect, body, reply, events, mhPc, queue, whPc,
                   written, writing, sockShut>>
    /\ UNCHANGED <<envVars, histVars>>

\* the token is seen cancelled, or the socket reports ConnectionReset:
\* `break`
read_Break(c) ==
    /\ Closes(c) \/ token[c]
    /\ readPc[c] = "select"
    /\ Break(c, cid[c])
    /\ UNCHANGED <<treeVars, brokerVars>>
    /\ UNCHANGED <<cid, seenConnect, body, reply, events, mhPc, queue, whPc,
                   written, writing, sockShut>>
    /\ UNCHANGED <<envVars, histVars>>

\* any other socket error: return Err(MqttError::Io(err))
read_IoError(c) ==
    /\ Closes(c)
    /\ readPc[c] = "select"
    /\ EarlyReturn(c)
    /\ UNCHANGED <<treeVars, brokerVars>>
    /\ UNCHANGED <<cid, seenConnect, body, reply, token, events, mhPc, queue,
                   whPc, written, writing, sockShut>>
    /\ UNCHANGED <<envVars, histVars>>

\* after the loop: DisconnectClient(id) is sent
read_Cleanup(c) ==
    /\ readPc[c] = "cleanup"
    /\ CommandSendCompletes
    /\ commands' = CommandSend(commands, CommandDisconnectClient(c, cid[c][1]))
    /\ disconnectSent' = IF BrokerGone THEN disconnectSent ELSE disconnectSent \cup {c}
    /\ readPc' = [readPc EXCEPT ![c] = "done"]
    /\ UNCHANGED <<subscriptions, treeOps, lastGet, sessions, nextIdent,
                   brokerPc, pending>>
    /\ UNCHANGED <<cid, seenConnect, body, reply, token, events, mhPc, queue,
                   whPc, written, writing, sockShut>>
    /\ UNCHANGED <<envVars, granted, lastPublish>>

----------------------------------------------------------------------------
(* A connection: message_handler *)

\* FifoQueue::push : push_back
QueuePush(q, value) == Append(q, value)

\* a variant of ChannelRecv that takes the newest event
ChannelRecvBack(ev) == [value |-> ev[Len(ev)], rest |-> SubSeq(ev, 1, Len(ev) - 1)]

\* Receiver::recv : the oldest event of the channel
ChannelRecv(ev) == [value |-> Head(ev), rest |-> Tail(ev)]

\* an event is received: a Message goes to the reply queue, Disconnect
\* leaves the loop; after the loop token.cancel() and the receiver is dropped
message_handler_Recv(c) ==
    /\ mhPc[c] = "run"
    /\ events[c] # <<>>
    /\ IF ChannelRecv(events[c]).value.kind = "Message"
       THEN /\ queue' = [queue EXCEPT ![c] =
                            QueuePush(@, ChannelRecv(events[c]).value.packet)]
            /\ events' = [events EXCEPT ![c] = ChannelRecv(@).rest]
            /\ UNCHANGED <<mhPc, token>>
       ELSE /\ mhPc' = [mhPc EXCEPT ![c] = "done"]
            /\ token' = [token EXCEPT ![c] = TRUE]
            /\ events' = [events EXCEPT ![c] = <<>>]
            /\ UNCHANGED queue
    /\ UNCHANGED <<treeVars, brokerVars>>
    /\ UNCHANGED <<readPc, cid, seenConnect, body, reply, whPc, written, writing, sockShut>>
    /\ UNCHANGED <<envVars, histVars>>

message_handler_Cancelled(c) ==
    /\ mhPc[c] = "run"
    /\ token[c]
    /\ mhPc' = [mhPc EXCEPT ![c] = "done"]
    /\ events' = [events EXCEPT ![c] = <<>>]
    /\ UNCHANGED <<treeVars, brokerVars>>
    /\ UNCHANGED <<readPc, cid, seenConnect, body, reply, token, queue, whPc,
                   written, writing, sockShut>>
    /\ UNCHANGED <<envVars, histVars>>

----------------------------------------------------------------------------
(* A connection: handle_write_stream *)

\* a variant of QueuePop that takes the newest value
QueuePopBack(q) == [value |-> q[Len(q)], rest |-> SubSeq(q, 1, Len(q) - 1)]

\* FifoQueue::pop : pop_front
QueuePop(q) == [value |-> Head(q), rest |-> Tail(q)]

GrantedBy(packet) ==
    IF packet.type = "SUBACK"
    THEN {packet.topic[i][1] : i \in {j \in 1..Len(packet.topic) :
                                        packet.codes[j] # SubackFailure}}
    ELSE {}

\* writes in a run of which the writer takes a part only
MaxShortWrites == 1

\* the bytes of the variable part Packet::pack writes for a queued packet:
\* the topic with its length and the payload of a PUBLISH made without a
\* packet id, the packet id and the return codes of a SUBACK, nothing for
\* PINGRESP, two bytes for CONNACK, UNSUBACK and the acknowledgements
VariableLen(packet) ==
    CASE packet.type = "PUBLISH" -> 2 + Len(packet.topic) + Len(packet.payload)
      [] packet.type = "SUBACK" -> 2 + Len(packet.codes)
      [] packet.type = "PINGRESP" -> 0
      [] OTHER -> 2

\* message.len() : the flags byte, the encoded length, the variable part
PackedLen(packet) ==
    Len(encode_length(VariableLen(packet), <<0>>)) + VariableLen(packet)

\* what reaches the socket when the writer takes only the first len bytes
ShortWritten(packet, len) == [type |-> "PARTIAL", packet |-> packet, len |-> len]

\* AsyncWriteExt::write is one poll_write: Ok(n) with n bytes of the message
\* taken, all of them or any smaller number, at least one
WriteOutcomes(packet) ==
    {packet} \cup {ShortWritten(packet, n) : n \in 1..(PackedLen(packet) - 1)}

\* let empty = queue.is_empty()? finds a message and queue.pop()? takes the
\* oldest one; this task is the only one that pops, so the queue seen
\* non-empty is non-empty at the pop
handle_write_stream_Pop(c) ==
    /\ whPc[c] = "run"
    /\ queue[c] # <<>>
    /\ LET p == QueuePop(queue[c]) IN
       /\ queue' = [queue EXCEPT ![c] = p.rest]
       /\ writing' = [writing EXCEPT ![c] = Some(p.value)]
    /\ whPc' = [whPc EXCEPT ![c] = "write"]
    /\ UNCHANGED <<treeVars, brokerVars>>
    /\ UNCHANGED <<readPc, cid, seenConnect, body, reply, token, events, mhPc,
                   written, sockShut>>
    /\ UNCHANGED <<envVars, histVars>>

\* writes of which the writer took a part only, so far in this run
ShortWrites ==
    Cardinality({<<c, i>> \in Conns \X (1..MaxPackets + MaxPublishes + 2) :
                    i <= Len(written[c]) /\ written[c][i].type = "PARTIAL"})

\* writer.write(&message).await returns Ok(len): len is logged and counted,
\* bytes the writer did not take are not offered again
handle_write_stream_Write(c) ==
    /\ whPc[c] = "write"
    /\ \E wrote \in WriteOutcomes(writing[c][1]) :
          /\ wrote.type = "PARTIAL" => ShortWrites < MaxShortWrites
          /\ written' = [written EXCEPT ![c] = Append(@, wrote)]
          /\ granted' = [granted EXCEPT ![c] = @ \cup GrantedBy(wrote)]
    /\ writing' = [writing EXCEPT ![c] = None]
    /\ whPc' = [whPc EXCEPT ![c] = "run"]
    /\ UNCHANGED <<treeVars, brokerVars>>
    /\ UNCHANGED <<readPc, cid, seenConnect, body, reply, token, events, mhPc,
                   queue, sockShut>>
    /\ UNCHANGED <<envVars, disconnectSent, lastPublish>>

\* the write fails: `?` returns the error, before cancel() and shutdown()
handle_write_stream_WriteError(c) ==
    /\ Closes(c)
    /\ whPc[c] = "write"
    /\ writing' = [writing EXCEPT ![c] = None]
    /\ whPc' = [whPc EXCEPT ![c] = "err"]
    /\ UNCHANGED <<treeVars, brokerVars>>
    /\ UNCHANGED <<readPc, cid, seenConnect, body, reply, token, events, mhPc,
                   queue, written, sockShut>>
    /\ UNCHANGED <<envVars, histVars>>

\* The loop reads queue.is_empty() and then cancellation.is_cancelled(): the
\* read handler and the message handler, on other worker threads, may push
\* and cancel between the two.

\* let empty = queue.is_empty()? : the queue is seen empty
handle_write_stream_IsEmpty(c) ==
    /\ whPc[c] = "run"
    /\ queue[c] = <<>>
    /\ whPc' = [whPc EXCEPT ![c] = "empty"]
    /\ UNCHANGED <<treeVars, brokerVars>>
    /\ UNCHANGED <<readPc, cid, seenConnect, body, reply, token, events, mhPc,
                   queue, written, writing, sockShut>>
    /\ UNCHANGED <<envVars, histVars>>

\* if empty && cancellation.is_cancelled() { break; } : with the token
\* cancelled the loop is left, cancel() finds the token cancelled and
\* writer.shutdown() succeeds; otherwise the loop starts again
handle_write_stream_IsCancelled(c) ==
    /\ whPc[c] = "empty"
    /\ IF token[c]
       THEN /\ whPc' = [whPc EXCEPT ![c] = "done"]
            /\ sockShut' = [sockShut EXCEPT ![c] = TRUE]
       ELSE /\ whPc' = [whPc EXCEPT ![c] = "run"]
            /\ UNCHANGED sockShut
    /\ UNCHANGED <<treeVars, brokerVars>>
    /\ UNCHANGED <<readPc, cid, seenConnect, body, reply, token, events, mhPc,
                   queue, written, writing>>
    /\ UNCHANGED <<envVars, histVars>>

\* the loop is left and writer.shutdown().await fails: `?` returns the error
handle_write_stream_ShutdownError(c) ==
    /\ Closes(c)
    /\ whPc[c] = "empty"
    /\ token[c]
    /\ whPc' = [whPc EXCEPT ![c] = "err"]
    /\ UNCHANGED <<treeVars, brokerVars>>
    /\ UNCHANGED <<readPc, cid, seenConnect, body, reply, token, events, mhPc,
                   queue, written, writing, sockShut>>
    /\ UNCHANGED <<envVars, histVars>>

\* the steps of handle_write_stream on a socket that takes what it is given
handle_write_stream(c) ==
    \/ handle_write_stream_Pop(c)
    \/ handle_write_stream_Write(c)
    \/ handle_write_stream_IsEmpty(c)
    \/ handle_write_stream_IsCancelled(c)

----------------------------------------------------------------------------
(* A connection: client_handler *)

\* the listener's token is cancelled: the connection's token is cancelled
client_handler_Cancel(c) ==
    /\ extCancelled
    /\ ~token[c]
    /\ token' = [token EXCEPT ![c] = TRUE]
    /\ UNCHANGED <<treeVars, brokerVars>>
    /\ UNCHANGED <<readPc, cid, seenConnect, body, reply, events, mhPc, queue,
                   whPc, written, writing, sockShut>>
    /\ UNCHANGED <<envVars, histVars>>

----------------------------------------------------------------------------
(* The broker with its connections *)

\* a second passes on the clock of the runtime
Tick ==
    /\ scenario = "keepalive"
    /\ now < MaxTime
    /\ now' = now + 1
    /\ UNCHANGED <<treeVars, brokerVars, connVars, histVars>>
    /\ UNCHANGED <<extCancelled, packetsLeft, pubSeq, scenario, profile, callVars, wireVars>>
    /\ UNCHANGED <<keepalive, keepalive_duration, bodyKeepalive>>

ConnInit ==
    /\ readPc = [c \in Conns |-> "select"]
    /\ cid = [c \in Conns |-> None]
    /\ seenConnect = [c \in Conns |-> FALSE]
    /\ body = [c \in Conns |-> <<>>]
    /\ reply = [c \in Conns |-> None]
    /\ token = [c \in Conns |-> FALSE]
    /\ events = [c \in Conns |-> <<>>]
    /\ mhPc = [c \in Conns |-> "run"]
    /\ queue = [c \in Conns |-> <<>>]
    /\ whPc = [c \in Conns |-> "run"]
    /\ written = [c \in Conns |-> <<>>]
    /\ writing = [c \in Conns |-> None]
    /\ sockShut = [c \in Conns |-> FALSE]

BrokerInit ==
    /\ sessions = <<>>
    /\ nextIdent = 1
    /\ commands = <<>>
    /\ brokerPc = "recv"
    /\ pending = NoPublish

HistInit ==
    /\ granted = [c \in Conns |-> {}]
    /\ disconnectSent = {}
    /\ lastPublish = NoPublish

InitProgram ==
    /\ subscriptions = SubscriptionTreeNew
    /\ treeOps = 0
    /\ lastGet = [topic |-> <<>>, subscribers |-> <<>>]
    /\ BrokerInit
    /\ ConnInit
    /\ HistInit
    /\ extCancelled = FALSE
    /\ packetsLeft = [c \in Conns |-> Packets(c)]
    /\ pubSeq = 0
    /\ now = 0
    /\ keepalive = [c \in Conns |-> Reset(InitialKeepalive)]
    /\ keepalive_duration = [c \in Conns |-> InitialKeepalive]
    /\ bodyKeepalive = [c \in Conns |-> 0]

\* the profile of the runs in which Packet::unpack, the only code whose
\* outcome depends on the profile, is not called
NoDecoder == "release"

\* no function is called on its own
NoCall == input = None /\ output = <<>>

WireIdle == sent = <<>> /\ inbound = <<>> /\ decoded = <<>>

Init ==
    /\ scenario \in Scenarios
    /\ InitProgram
    /\ profile = NoDecoder
    /\ WireIdle
    /\ NoCall

Broker ==
    \/ listen_RegisterClient
    \/ listen_RegisterClientResume
    \/ listen_SubscribeUnknown
    \/ listen_Subscribe
    \/ listen_Publish
    \/ listen_PublishResume
    \/ listen_Unsubscribe
    \/ listen_DisconnectClient
    \/ listen_Exit

Connection(c) ==
    \/ read_Connect(c)
    \/ read_Publish(c)
    \/ read_Disconnect(c)
    \/ read_Subscribe(c)
    \/ read_Unsubscribe(c)
    \/ read_Reply(c)
    \/ read_Simple(c)
    \/ read_ServerPacket(c)
    \/ read_Malformed(c)
    \/ read_KeepaliveTimeout(c)
    \/ read_Break(c)
    \/ read_IoError(c)
    \/ read_Cleanup(c)
    \/ message_handler_Recv(c)
    \/ message_handler_Cancelled(c)
    \/ handle_write_stream(c)
    \/ handle_write_stream_WriteError(c)
    \/ handle_write_stream_ShutdownError(c)
    \/ client_handler_Cancel(c)

Next == Broker \/ listen_Shutdown \/ Tick \/ \E c \in Conns : Connection(c)

Spec == Init /\ [][Next]_vars

\* Every spawned task that can take a step is polled again by the runtime:
\* the broker task, and for each connection the read handler once a reply
\* or a cancellation is there for it, the message handler, the write handler
\* and client_handler. Nothing obliges a client to send a packet or the
\* operator to press ctrl-c.
Fairness ==
    /\ WF_vars(Broker)
    /\ WF_vars(Tick)
    /\ \A c \in Conns :
          /\ WF_vars(read_Reply(c))
          /\ WF_vars(token[c] /\ read_Break(c))
          /\ WF_vars(read_KeepaliveTimeout(c))
          /\ WF_vars(read_Cleanup(c))
          /\ WF_vars(message_handler_Recv(c))
          /\ WF_vars(message_handler_Cancelled(c))
          /\ WF_vars(handle_write_stream(c))
          /\ WF_vars(client_handler_Cancel(c))

SpecFair == Spec /\ Fairness

----------------------------------------------------------------------------
(* Shutdown on a runtime with WorkerThreads worker threads. The loop of     *)
(* handle_write_stream has no await while the queue is empty and the token  *)
(* is not cancelled, so a write task that has been polled keeps its worker  *)
(* thread until it ends; every other task needs a free worker to be polled. *)
(* listen itself runs on the thread that called block_on, but the signal    *)
(* driver that wakes its ctrl_c future is turned by the worker threads.     *)

\* the write task is polled for the first time
handle_write_stream_Start(c) ==
    /\ whPc[c] = "spawned"
    /\ FreeWorker
    /\ whPc' = [whPc EXCEPT ![c] = "run"]
    /\ UNCHANGED <<treeVars, brokerVars>>
    /\ UNCHANGED <<readPc, cid, seenConnect, body, reply, token, events, mhPc,
                   queue, written, writing, sockShut>>
    /\ UNCHANGED <<envVars, histVars>>

SchedInit ==
    /\ subscriptions = SubscriptionTreeNew
    /\ treeOps = 0
    /\ lastGet = [topic |-> <<>>, subscribers |-> <<>>]
    /\ BrokerInit
    /\ readPc = [c \in Conns |-> "select"]
    /\ cid = [c \in Conns |-> None]
    /\ seenConnect = [c \in Conns |-> FALSE]
    /\ body = [c \in Conns |-> <<>>]
    /\ reply = [c \in Conns |-> None]
    /\ token = [c \in Conns |-> FALSE]
    /\ events = [c \in Conns |-> <<>>]
    /\ mhPc = [c \in Conns |-> "run"]
    /\ queue = [c \in Conns |-> <<>>]
    /\ whPc = [c \in Conns |-> "spawned"]
    /\ written = [c \in Conns |-> <<>>]
    /\ writing = [c \in Conns |-> None]
    /\ sockShut = [c \in Conns |-> FALSE]
    /\ HistInit
    /\ extCancelled = FALSE
    /\ packetsLeft = [c \in Conns |-> MaxPackets]
    /\ pubSeq = 0
    /\ scenario = "sched"
    /\ profile = NoDecoder
    /\ now = 0
    /\ keepalive = [c \in Conns |-> Reset(InitialKeepalive)]
    /\ keepalive_duration = [c \in Conns |-> InitialKeepalive]
    /\ bodyKeepalive = [c \in Conns |-> 0]
    /\ WireIdle
    /\ NoCall

\* the steps of a run in which the server is shut down around a subscriber
\* (scenario "sched"); the steps of the broker task and of the tasks that
\* yield are taken on a free worker
SchedBroker ==
    /\ FreeWorker
    /\ listen_RegisterClient \/ listen_Subscribe \/ listen_Exit

SchedReader(c) ==
    /\ FreeWorker
    /\ \/ read_Connect(c)
       \/ read_Subscribe(c)
       \/ read_Reply(c)
       \/ read_Break(c)
       \/ read_Cleanup(c)

SchedMessageHandler(c) == FreeWorker /\ message_handler_Cancelled(c)

SchedClientHandler(c) == FreeWorker /\ client_handler_Cancel(c)

SchedNext ==
    \/ SchedBroker
    \/ listen_Shutdown
    \/ \E c \in Conns :
          \/ SchedReader(c)
          \/ SchedMessageHandler(c)
          \/ SchedClientHandler(c)
          \/ handle_write_stream_Start(c)
          \/ handle_write_stream(c)

SchedFairness ==
    /\ WF_vars(SchedBroker)
    /\ \A c \in Conns :
          /\ WF_vars(FreeWorker /\ read_Reply(c))
          /\ WF_vars(FreeWorker /\ token[c] /\ read_Break(c))
          /\ WF_vars(FreeWorker /\ read_Cleanup(c))
          /\ WF_vars(SchedMessageHandler(c))
          /\ WF_vars(SchedClientHandler(c))
          /\ WF_vars(handle_write_stream_Start(c))
          /\ WF_vars(handle_write_stream(c))

SpecSched == SchedInit /\ [][SchedNext]_vars /\ SchedFairness

----------------------------------------------------------------------------
(* The byte stream of a connection: fill_buf, consume and Packet::unpack *)

\* the packets a client sends: PINGREQ and PUBACK with packet identifier 1
WirePackets == {<<192, 0>>, <<64, 2, 0, 1>>}

RECURSIVE Flatten(_)
Flatten(packets) ==
    IF packets = <<>> THEN <<>> ELSE Head(packets) \o Flatten(Tail(packets))

\* every way of cutting a run of bytes into reads
RECURSIVE Groupings(_)
Groupings(bytes) ==
    IF bytes = <<>> THEN {<<>>}
    ELSE UNION {{<<SubSeq(bytes, 1, n)>> \o rest :
                    rest \in Groupings(SubSeq(bytes, n + 1, Len(bytes)))} :
                n \in 1..Len(bytes)}

Streams == UNION {[1..n -> WirePackets] : n \in 1..MaxStream}

\* the read loop of connection 1, whose bytes are followed, has been left:
\* Packet::unpack failed or panicked
LoopBroken == readPc[1] # "select"

\* one turn of the read loop: fill_buf returns what has arrived, all of it
\* is consumed, Packet::unpack is applied to it once and, with no await in
\* between, the arm of the packet runs (PINGREQ is answered and the
\* keepalive reset, PUBACK is dropped); an error ends the loop and cancels
\* the token
read_FillBuf ==
    /\ scenario = "wire"
    /\ inbound # <<>>
    /\ ~LoopBroken
    /\ read_Unpacked(1, unpack(Head(inbound), profile))
    /\ UNCHANGED <<sent, callVars>>

WireInit ==
    /\ scenario = "wire"
    /\ InitProgram
    /\ profile \in Builds
    /\ sent \in Streams
    /\ inbound \in Groupings(Flatten(sent))
    /\ decoded = <<>>
    /\ NoCall

SpecWire == WireInit /\ [][read_FillBuf]_vars

----------------------------------------------------------------------------
(* The first packet of a connection: the bytes of a CONNECT arrive in one   *)
(* read, are decoded and handled; the message handler and the write handler *)
(* of the connection run beside the read handler.                           *)

\* the CONNECT of tests::test_unpack_connect_packet: level 4, clean session,
\* keepalive 60, ClientId "myPy", username "client", password "pass"
TestConnect ==
    <<16, 30, 0, 4, 77, 81, 84, 84, 4, 194, 0, 60, 0, 4, 109, 121, 80, 121,
      0, 6, 99, 108, 105, 101, 110, 116, 0, 4, 112, 97, 115, 115>>

\* the bytes of a CONNECT without will, username and password
ConnectBytes(name, level, flags, k, client_id) ==
    LET variable == put_string(put_u16(put_string(<<>>, name) \o <<level, flags>>, k),
                               client_id)
    IN <<16, Len(variable)>> \o variable

\* "MQIsdp", the protocol name of MQTT 3.1
MQIsdp == <<77, 81, 73, 115, 100, 112>>

ProtocolNames == {MQTT, MQIsdp}

ProtocolLevels == {3, 4, 5}

ConnectFlags == {0, 2}

ClientIds == {<<>>, <<88>>}

ConnectPackets ==
    {TestConnect} \cup
    {ConnectBytes(name, level, flags, 60, id) :
        name \in ProtocolNames, level \in ProtocolLevels,
        flags \in ConnectFlags, id \in ClientIds}

ConnectInit ==
    /\ scenario = "connect"
    /\ InitProgram
    /\ profile \in Builds
    /\ sent \in {<<bytes>> : bytes \in ConnectPackets}
    /\ inbound = sent
    /\ decoded = <<>>
    /\ NoCall

ConnectNext ==
    \E c \in Conns :
        \/ read_Packet(c)
        \/ message_handler_Cancelled(c)
        \/ handle_write_stream(c)

SpecConnect == ConnectInit /\ [][ConnectNext]_vars

----------------------------------------------------------------------------
(* The QoS handshake: the client of connection 1 connects and sends a       *)
(* PUBLISH, a PUBACK, a PUBREC, a PUBREL or a PUBCOMP.                       *)

HandshakeInit ==
    /\ scenario = "handshake"
    /\ InitProgram
    /\ profile = NoDecoder
    /\ WireIdle
    /\ NoCall

HandshakeNext ==
    \/ listen_RegisterClient
    \/ listen_Publish
    \/ \E c \in Conns :
          \/ read_Connect(c)
          \/ read_Reply(c)
          \/ read_Publish(c)
          \/ read_Simple(c)
          \/ handle_write_stream(c)

SpecHandshake == HandshakeInit /\ [][HandshakeNext]_vars

----------------------------------------------------------------------------
(* A reconnect that keeps the session: connection 1 connects as X and       *)
(* subscribes, connection 2 connects as X without clean_session and         *)
(* publishes.                                                               *)

TakeoverInit ==
    /\ scenario = "takeover"
    /\ InitProgram
    /\ profile = NoDecoder
    /\ WireIdle
    /\ NoCall

TakeoverNext ==
    \/ listen_RegisterClient
    \/ listen_RegisterClientResume
    \/ listen_Subscribe
    \/ listen_Publish
    \/ listen_PublishResume
    \/ \E c \in Conns :
          \/ read_Connect(c)
          \/ read_Reply(c)
          \/ read_Subscribe(c)
          \/ read_Publish(c)
          \/ message_handler_Recv(c)
          \/ handle_write_stream(c)

SpecTakeover == TakeoverInit /\ [][TakeoverNext]_vars

----------------------------------------------------------------------------
(* Functions of the crate called on their own: the arguments are drawn in  *)
(* the initial state, each step makes one call and keeps what it returned. *)

\* a call changes nothing of the broker and its connections
CallFrame ==
    UNCHANGED <<treeVars, brokerVars, connVars, histVars, extCancelled,
                packetsLeft, pubSeq, scenario, profile, timeVars, wireVars, input>>

\* the remaining lengths encoded: the ends of the ranges of 1, 2, 3 and 4
\* bytes, their neighbours, and the lengths of the tests
Lengths ==
    {0, 1, 2, 30, 126, 127, 128, 129, 321, 16382, 16383, 16384, 16385,
     2097150, 2097151, 2097152, 2097153, 134217728, 268435454, 268435455}

\* what the buffer holds when encode_length is called: nothing, as in the
\* tests, or the first byte of the fixed header, as in Packet::pack
Buffers == {<<>>, <<48>>}

LengthInit ==
    /\ scenario = "length"
    /\ InitProgram
    /\ profile = NoDecoder
    /\ WireIdle
    /\ input \in [len : Lengths, bytes : Buffers]
    /\ output = <<>>

\* encode_length(len, &mut bytes)
length_Encode ==
    /\ scenario = "length"
    /\ output = <<>>
    /\ output' = <<encode_length(input.len, input.bytes)>>
    /\ CallFrame

\* decode_length on an iterator that stands behind the bytes the buffer
\* held before
length_Decode ==
    /\ scenario = "length"
    /\ Len(output) = 1
    /\ output' = Append(output,
                        decode_length(output[1], Len(input.bytes) + 1, 1, 0, 0))
    /\ CallFrame

LengthNext == length_Encode \/ length_Decode

SpecLength == LengthInit /\ [][LengthNext]_vars

----------------------------------------------------------------------------
(* Packet::pack and Packet::unpack on packets of every type *)

\* a packet whose fixed header carries the length of its variable part, as
\* the packets of the tests do
ValidPacket(packet_type, dup, qos, retain, variable) ==
    [fixed |-> FixedHeaderNew(packet_type, dup, qos, retain,
                              Len(VariableHeaderPack(variable))),
     variable |-> variable]

\* VariableHeader::Connect of MQTT 3.1.1, without a will
ConnectVariable(flags, client_id, username, password) ==
    [kind |-> "Connect", flags |-> flags, keepalive |-> 60,
     client_id |-> client_id, username |-> username, password |-> password,
     will_topic |-> None, will_message |-> None, protocol_version |-> "Four"]

\* "myPy", "client", "pass", "info" and "Cedalo" of the tests
Str_myPy == <<109, 121, 80, 121>>

Str_client == <<99, 108, 105, 101, 110, 116>>

Str_pass == <<112, 97, 115, 115>>

Str_info == <<105, 110, 102, 111>>

Str_Cedalo == <<67, 101, 100, 97, 108, 111>>

\* the packet of tests::test_pack_connect_packet
TestConnectPacket ==
    ValidPacket(CONNECT, FALSE, 0, FALSE,
                ConnectVariable(FlagsNew(TRUE, FALSE, 0, FALSE, TRUE, TRUE),
                                Str_myPy, Some(Str_client), Some(Str_pass)))

ConnectPacketsIn ==
    {TestConnectPacket,
     ValidPacket(CONNECT, FALSE, 0, FALSE,
                 ConnectVariable(FlagsNew(TRUE, FALSE, 0, FALSE, FALSE, FALSE),
                                 Str_myPy, None, None)),
     ValidPacket(CONNECT, FALSE, 0, FALSE,
                 ConnectVariable(FlagsNew(FALSE, FALSE, 0, FALSE, FALSE, TRUE),
                                 Str_myPy, Some(Str_client), None))}

ConnAckPacketsIn ==
    {ValidPacket(CONNACK, FALSE, 0, FALSE,
                 [kind |-> "ConnAck", acknowledge_flags |-> sp, return_code |-> rc]) :
        sp \in {0, 1}, rc \in 0..5}

PacketIdValues == {1, 2, 65535}

PublishPacketsIn ==
    {ValidPacket(PUBLISH, FALSE, qos, retain,
                 [kind |-> "Publish", topic |-> Str_info,
                  packet_id |-> IF qos > 0 THEN Some(2) ELSE None,
                  payload |-> payload]) :
        qos \in {0, 1, 2}, retain \in BOOLEAN, payload \in {<<>>, Str_Cedalo}}

AckPacketsIn ==
    {ValidPacket(t[1], FALSE, t[2], FALSE, [kind |-> t[3], packet_id |-> id]) :
        t \in {<<PUBACK, 0, "PubAck">>, <<PUBREC, 0, "PubRec">>,
               <<PUBREL, 1, "PubRel">>, <<PUBCOMP, 0, "PubComp">>,
               <<UNSUBACK, 0, "UnsubAck">>},
        id \in PacketIdValues}

SubscribePacketsIn ==
    {ValidPacket(SUBSCRIBE, FALSE, 1, FALSE,
                 [kind |-> "Subscribe", packet_id |-> 1, tuples |-> tuples]) :
        tuples \in {<<<<Str_info, 1>>>>, <<<<Str_info, 0>>, <<Str_pass, 2>>>>}}

SubAckPacketsIn ==
    {ValidPacket(SUBACK, FALSE, 0, FALSE,
                 [kind |-> "SubAck", packet_id |-> 1, return_codes |-> codes]) :
        codes \in {<<0>>, <<1, 2>>, <<128>>}}

UnsubscribePacketsIn ==
    {ValidPacket(UNSUBSCRIBE, FALSE, 1, FALSE,
                 [kind |-> "Unsubscribe", packet_id |-> 1, tuples |-> tuples]) :
        tuples \in {<<Str_info>>, <<Str_info, Str_pass>>}}

EmptyPacketsIn ==
    {ValidPacket(t[1], FALSE, 0, FALSE, [kind |-> t[2]]) :
        t \in {<<PINGREQ, "PingReq">>, <<PINGRESP, "PingResp">>,
               <<DISCONNECT, "Disconnect">>}}

CodecPackets ==
    ConnectPacketsIn \cup ConnAckPacketsIn \cup PublishPacketsIn \cup AckPacketsIn
    \cup SubscribePacketsIn \cup SubAckPacketsIn \cup UnsubscribePacketsIn
    \cup EmptyPacketsIn

CodecInit ==
    /\ scenario = "codec"
    /\ InitProgram
    /\ profile \in Builds
    /\ WireIdle
    /\ input \in CodecPackets
    /\ output = <<>>

\* packet.pack()
codec_Pack ==
    /\ scenario = "codec"
    /\ output = <<>>
    /\ output' = <<pack(input)>>
    /\ CallFrame

\* Packet::unpack(&bytes)
codec_Unpack ==
    /\ scenario = "codec"
    /\ Len(output) = 1
    /\ output' = Append(output, unpack(output[1], profile))
    /\ CallFrame

CodecNext == codec_Pack \/ codec_Unpack

SpecCodec == CodecInit /\ [][CodecNext]_vars

----------------------------------------------------------------------------
(* Packet::unpack on the bytes of PUBLISH, SUBSCRIBE, SUBACK and            *)
(* UNSUBSCRIBE packets whose flags, declared length or end were altered     *)

\* the low four bits of the first byte replaced
WithFlags(bytes, flags) == <<(bytes[1] \div 16) * 16 + flags>> \o Tail(bytes)

\* the remaining length (one byte here) replaced
WithLength(bytes, len) == <<bytes[1], len>> \o Tail(Tail(bytes))

DecodePackets ==
    {pack(p) : p \in PublishPacketsIn \cup SubscribePacketsIn
                     \cup SubAckPacketsIn \cup UnsubscribePacketsIn}

DecodeInputs ==
    {WithFlags(b, flags) : b \in DecodePackets, flags \in 0..15}
    \cup UNION {{WithLength(b, len) : len \in 0..b[2]} : b \in DecodePackets}
    \cup UNION {{SubSeq(b, 1, n) : n \in 2..Len(b)} : b \in DecodePackets}

DecodeInit ==
    /\ scenario = "decode"
    /\ InitProgram
    /\ profile \in Builds
    /\ WireIdle
    /\ input \in DecodeInputs
    /\ output = <<>>

\* Packet::unpack(&bytes)
decode_Unpack ==
    /\ scenario = "decode"
    /\ output = <<>>
    /\ output' = <<unpack(input, profile)>>
    /\ CallFrame

SpecDecode == DecodeInit /\ [][decode_Unpack]_vars

----------------------------------------------------------------------------
(* The setters of FixedHeader on every value of the flags byte *)

HeaderOf(byte) == [flags |-> byte, remaining_len |-> 0]

HeaderInit ==
    /\ scenario = "header"
    /\ InitProgram
    /\ profile = NoDecoder
    /\ WireIdle
    /\ input \in 0..255
    /\ output = <<>>

HeaderSet(setter, value, fixed) ==
    /\ scenario = "header"
    /\ output = <<>>
    /\ output' = <<[setter |-> setter, value |-> value, fixed |-> fixed]>>
    /\ CallFrame

header_set_packet_type ==
    \E value \in CONNECT..DISCONNECT :
        HeaderSet("set_packet_type", value, set_packet_type(HeaderOf(input), value))

header_set_dup ==
    \E value \in BOOLEAN :
        HeaderSet("set_dup", value, set_dup(HeaderOf(input), value))

header_set_qos ==
    \E value \in 0..2 :
        HeaderSet("set_qos", value, set_qos(HeaderOf(input), value))

header_set_retain ==
    \E value \in BOOLEAN :
        HeaderSet("set_retain", value, set_retain(HeaderOf(input), value))

HeaderNext ==
    \/ header_set_packet_type
    \/ header_set_dup
    \/ header_set_qos
    \/ header_set_retain

SpecHeader == HeaderInit /\ [][HeaderNext]_vars

----------------------------------------------------------------------------
(* utils::tokenise_topic on strings of up to MaxLevels levels *)

\* levels.join("/")
RECURSIVE JoinLevels(_)
JoinLevels(levels) ==
    IF Len(levels) = 1 THEN levels[1]
    ELSE levels[1] \o <<SEP>> \o JoinLevels(Tail(levels))

TokenLevels == {EMPTY, <<"a">>, <<"g">>, SHARE}

TokenInputs ==
    {JoinLevels(levels) :
        levels \in UNION {[1..n -> TokenLevels] : n \in 1..MaxLevels}}

TokensInit ==
    /\ scenario = "tokens"
    /\ InitProgram
    /\ profile = NoDecoder
    /\ WireIdle
    /\ input \in TokenInputs
    /\ output = <<>>

\* tokenise_topic(value)
tokens_Tokenise ==
    /\ scenario = "tokens"
    /\ output = <<>>
    /\ output' = <<tokenise_topic(input)>>
    /\ CallFrame

SpecTokens == TokensInit /\ [][tokens_Tokenise]_vars

----------------------------------------------------------------------------
(* core::pattern : a topic split into its levels and separators, matched   *)
(* against a subscription filter                                            *)

SINGLE_LEVEL_WILD == <<"+">>

MULTI_LEVEL_WILD == <<"#">>

VARIABLE_IDENT == <<"$">>

SEPERATOR == "/"

\* Pattern::split_inclusive : the levels that are not empty and, between
\* them, every separator as a part of its own
RECURSIVE split_inclusive_from(_, _)
split_inclusive_from(value, cur) ==
    LET pending_part == IF cur # <<>> THEN <<cur>> ELSE <<>> IN
    IF value = <<>> THEN pending_part
    ELSE IF Head(value) = SEPERATOR
         THEN pending_part \o <<<<SEPERATOR>>>> \o split_inclusive_from(Tail(value), <<>>)
         ELSE split_inclusive_from(Tail(value), Append(cur, Head(value)))

split_inclusive(value) == split_inclusive_from(value, <<>>)

\* Pattern::new
PatternNew(topic) == [pattern |-> split_inclusive(topic)]

\* a variant of the test below that looks at the `$` wherever the part is
DollarAnywhere(target, idx) == StartsWith(target, VARIABLE_IDENT)

\* target.starts_with(VARIABLE_IDENT) && idx == 1
DollarAtStart(target, idx) == StartsWith(target, VARIABLE_IDENT) /\ idx = 1

\* the loop of Pattern::matches, idx already incremented
RECURSIVE matches_loop(_, _, _)
matches_loop(target_iter, pattern_iter, idx) ==
    IF target_iter = <<>> /\ pattern_iter = <<>> THEN TRUE
    ELSE IF target_iter = <<>> \/ pattern_iter = <<>> THEN FALSE
    ELSE LET part == Head(pattern_iter)
             target == Head(target_iter)
         IN IF part = MULTI_LEVEL_WILD /\ ~DollarAtStart(target, idx) THEN TRUE
            ELSE IF part = SINGLE_LEVEL_WILD /\ ~DollarAtStart(target, idx)
                 THEN matches_loop(Tail(target_iter), Tail(pattern_iter), idx + 1)
            ELSE IF part = target
                 THEN matches_loop(Tail(target_iter), Tail(pattern_iter), idx + 1)
            ELSE FALSE

\* Pattern::matches : self holds the parts of the topic, the argument is the
\* subscription filter
matches(self, topic) == matches_loop(self.pattern, split_inclusive(topic), 1)

\* the topics and the filters of the tests (SYS shortened to S) and others
\* with a `$` at the first level, at a later level, at both and nowhere
PatternTopics ==
    {<<"$", "S">>, <<"$", "S", "/", "b">>, <<"$", "S", "/", "$", "S">>,
     <<"a", "/", "$", "S">>, <<"a", "/", "$", "S", "/", "b">>,
     <<"/", "$", "S">>, <<"a", "/", "b">>, <<"a", "/", "S">>, <<"a">>}

PatternFilters ==
    {<<"#">>, <<"+">>, <<"+", "/", "b">>, <<"+", "/", "+">>, <<"+", "/", "#">>,
     <<"a", "/", "+">>, <<"a", "/", "#">>, <<"a", "/", "+", "/", "b">>,
     <<"/", "+">>, <<"$", "S", "/", "#">>, <<"$", "S", "/", "+">>,
     <<"a", "/", "$", "S">>}

PatternInit ==
    /\ scenario = "pattern"
    /\ InitProgram
    /\ profile = NoDecoder
    /\ WireIdle
    /\ input \in [topic : PatternTopics, filter : PatternFilters]
    /\ output = <<>>

\* Pattern::new(&topic).matches(&subscribtion)
pattern_Matches ==
    /\ scenario = "pattern"
    /\ output = <<>>
    /\ output' = <<matches(PatternNew(input.topic), input.filter)>>
    /\ CallFrame

SpecPattern == PatternInit /\ [][pattern_Matches]_vars

----------------------------------------------------------------------------
(* The trie on its own: any sequence of insert, delete and get *)

TreeInit == Init /\ scenario = "pubsub"

TreeInsert ==
    \E f \in TreeFilters, id \in Idents, q \in TreeQos :
        /\ treeOps < MaxTreeOps
        /\ subscriptions' = SubscriptionTreeInsert(subscriptions, f,
                                SubscriptionLeaf(q, id, id)).tree
        /\ treeOps' = treeOps + 1
        /\ UNCHANGED lastGet
        /\ UNCHANGED <<brokerVars, connVars, envVars, histVars>>

TreeDelete ==
    \E f \in TreeFilters, id \in Idents :
        /\ treeOps < MaxTreeOps
        /\ subscriptions' = SubscriptionTreeDelete(subscriptions, f, id).tree
        /\ treeOps' = treeOps + 1
        /\ UNCHANGED lastGet
        /\ UNCHANGED <<brokerVars, connVars, envVars, histVars>>

TreeGet ==
    \E t \in TreeTopics :
        /\ treeOps < MaxTreeOps
        /\ lastGet' = [topic |-> t,
                       subscribers |-> SubscriptionTreeGet(subscriptions, t).subscribers]
        /\ treeOps' = treeOps + 1
        /\ UNCHANGED subscriptions
        /\ UNCHANGED <<brokerVars, connVars, envVars, histVars>>

TreeNext == TreeInsert \/ TreeDelete \/ TreeGet

SpecTree == TreeInit /\ [][TreeNext]_vars

----------------------------------------------------------------------------
(* The trie under inserts and deletes, each kept in `output` together with *)
(* the tree it was applied to                                               *)

\* a filter, the filter of its parent level and a shared subscription
EditFilters == {T_a, F_a_b, F_share_a_b}

EditsInit ==
    /\ scenario = "edits"
    /\ InitProgram
    /\ profile = NoDecoder
    /\ WireIdle
    /\ NoCall

EditFrame ==
    UNCHANGED <<lastGet, brokerVars, connVars, histVars, extCancelled,
                packetsLeft, pubSeq, scenario, profile, timeVars, wireVars, input>>

\* SubscriptionTree::insert
edit_Insert ==
    \E f \in EditFilters, id \in Idents, q \in TreeQos :
        /\ scenario = "edits"
        /\ treeOps < MaxTreeOps
        /\ subscriptions' = SubscriptionTreeInsert(subscriptions, f,
                                SubscriptionLeaf(q, id, id)).tree
        /\ treeOps' = treeOps + 1
        /\ output' = Append(output, [op |-> "insert", filter |-> f,
                                     identifier |-> id, qos |-> q,
                                     before |-> subscriptions])
        /\ EditFrame

\* SubscriptionTree::delete
edit_Delete ==
    \E f \in EditFilters, id \in Idents :
        /\ scenario = "edits"
        /\ treeOps < MaxTreeOps
        /\ subscriptions' = SubscriptionTreeDelete(subscriptions, f, id).tree
        /\ treeOps' = treeOps + 1
        /\ output' = Append(output, [op |-> "delete", filter |-> f,
                                     identifier |-> id,
                                     before |-> subscriptions])
        /\ EditFrame

EditsNext == edit_Insert \/ edit_Delete

SpecEdits == EditsInit /\ [][EditsNext]_vars

----------------------------------------------------------------------------
(* Properties of the trie *)

NoDuplicateIdentifier(subscribers) ==
    \A i, j \in 1..Len(subscribers) :
        subscribers[i][1] = subscribers[j][1] => i = j

\* the regular leaves stored in the tree for an identifier, as paths
PathsOf(tree, identifier) ==
    {p \in DOMAIN tree :
        \E i \in 1..Len(tree[p].subs) : tree[p].subs[i].identifier = identifier}

\* C4: for every concrete topic, the match result of the trie holds each
\* subscriber identifier at most once, whatever inserts and deletes came
\* before.
C4_GetHasNoDuplicates ==
    /\ \A t \in TreeTopics :
          NoDuplicateIdentifier(SubscriptionTreeGet(subscriptions, t).subscribers)
    /\ NoDuplicateIdentifier(lastGet.subscribers)

\* an identifier stored under a/b and under a/# (both reached by the topic
\* a/b) has been looked up and is in the result
C4_Witness ==
    /\ lastGet.topic = T_a_b
    /\ \E id \in Idents :
          /\ {<<<<"a">>, <<"b">>>>, <<<<"a">>, <<"#">>>>} \subseteq PathsOf(subscriptions, id)
          /\ \E i \in 1..Len(lastGet.subscribers) : lastGet.subscribers[i][1] = id

\* the tree without the filters whose first level is `+` or `#`
WithoutFirstLevelWildcards(tree) ==
    [p \in {q \in DOMAIN tree : q[1] \notin {<<"+">>, <<"#">>}} |-> tree[p]]

FirstLevelIsDollar(topic) == StartsWith(Head(Split(topic)), <<"$">>)

\* C5: a filter whose first level is `+` or `#` contributes nothing to the
\* match result of a topic whose first level starts with `$`.
C5_DollarTopicsSkipWildcards ==
    \A t \in TreeTopics :
        FirstLevelIsDollar(t) =>
            SubscriptionTreeGet(subscriptions, t).subscribers
              = SubscriptionTreeGet(WithoutFirstLevelWildcards(subscriptions), t).subscribers

\* the identifiers in a match result
IdentifiersOf(subscribers) == {subscribers[i][1] : i \in 1..Len(subscribers)}

\* the identifiers stored as regular subscribers under a filter that matches
\* the topic level by level
RegularMatches(tree, topic) ==
    UNION {{tree[p].subs[i].identifier : i \in 1..Len(tree[p].subs)} :
              p \in {q \in DOMAIN tree : LevelsMatch(q, Split(topic))}}

\* C30: for every set of stored regular filters and every concrete topic the
\* match result holds exactly the subscribers of the filters that match the
\* topic level by level
C30_GetReturnsExactlyTheMatching ==
    \A t \in TreeTopics :
        IdentifiersOf(SubscriptionTreeGet(subscriptions, t).subscribers)
          = RegularMatches(subscriptions, t)

\* an identifier has at most one leaf in the list
OneLeafEach(leaves) ==
    \A i, j \in 1..Len(leaves) :
        leaves[i].identifier = leaves[j].identifier => i = j

\* the list a subscription to the filter is stored in: the share group of
\* the node when the filter names one, the regular subscribers otherwise
LeavesOfFilter(tree, filter) ==
    LET tok == tokenise_topic(filter) IN
    IF ~HasNode(tree, tok.topic) THEN <<>>
    ELSE NodeLeaves(tree, tok.topic, tok.share)

\* the identifier has, in the list of the filter, the one leaf of this QoS
OneLeafOfQos(tree, filter, id, q) ==
    SelectSeq(LeavesOfFilter(tree, filter), LAMBDA x : x.identifier = id)
      = <<SubscriptionLeaf(q, id, id)>>

\* the last insert or delete made
LastEdit == output[Len(output)]

\* C31: after any inserts and deletes an identifier has at most one leaf in
\* the regular subscribers of a node and at most one in each of its share
\* groups, and an insert leaves, for its identifier and filter, the one leaf
\* with the QoS it asked for
C31_OneLeafPerIdentifier ==
    scenario = "edits" =>
        /\ \A p \in DOMAIN subscriptions :
              /\ OneLeafEach(subscriptions[p].subs)
              /\ \A i \in 1..Len(subscriptions[p].shared) :
                    OneLeafEach(subscriptions[p].shared[i][2])
        /\ (output # <<>> /\ LastEdit.op = "insert") =>
              OneLeafOfQos(subscriptions, LastEdit.filter, LastEdit.identifier,
                           LastEdit.qos)

\* identifier 1 subscribed to a/b with QoS 0 and then again with QoS 2,
\* and the same in the share group g of a/b
C31_Witness ==
    /\ scenario = "edits"
    /\ Len(output) = 2
    /\ output[1].op = "insert" /\ output[2].op = "insert"
    /\ output[1].filter = output[2].filter
    /\ output[1].identifier = 1 /\ output[2].identifier = 1
    /\ output[1].qos = 0 /\ output[2].qos = 2
    /\ LeavesOfFilter(subscriptions, output[2].filter) = <<SubscriptionLeaf(2, 1, 1)>>

\* a node without subscribers, members of share groups and children, or a
\* share group without members
HasEmptyPart(tree) ==
    \E p \in DOMAIN tree :
        \/ \E i \in 1..Len(tree[p].shared) : tree[p].shared[i][2] = <<>>
        \/ /\ ~HasChildren(tree, p)
           /\ tree[p].subs = <<>>
           /\ \A i \in 1..Len(tree[p].shared) : tree[p].shared[i][2] = <<>>

\* the last two edits are the insert of a subscription that the tree did not
\* hold and the delete of that subscription
InsertedThenDeleted ==
    /\ Len(output) >= 2
    /\ LET ins == output[Len(output) - 1] IN
       /\ ins.op = "insert"
       /\ LastEdit.op = "delete"
       /\ LastEdit.filter = ins.filter
       /\ LastEdit.identifier = ins.identifier
       /\ SelectSeq(LeavesOfFilter(ins.before, ins.filter),
                    LAMBDA x : x.identifier = ins.identifier) = <<>>

\* C32: a delete leaves no node whose subscribers, share groups and children
\* are all empty and no empty share group, and the delete of a subscription
\* just inserted, regular or shared, gives back the tree as it was before
\* the insert
C32_DeletePrunes ==
    scenario = "edits" =>
        /\ ~HasEmptyPart(subscriptions)
        /\ InsertedThenDeleted => subscriptions = output[Len(output) - 1].before

\* the node at which a regular subscription to the filter behind
\* `$share/<group>/` terminates
NodeOfSharedFilter(filter) == Tail(Tail(Split(filter)))

\* C33: a subscription to `$share/<group>/<filter>` is stored in the share
\* group <group> of the node at which a regular subscription to <filter>
\* terminates
C33_SharedStoredAtFilterNode ==
    (scenario = "edits" /\ output # <<>> /\ LastEdit.op = "insert"
        /\ tokenise_topic(LastEdit.filter).share # None) =>
        LET node == NodeOfSharedFilter(LastEdit.filter)
            group == tokenise_topic(LastEdit.filter).share[1]
        IN /\ HasNode(subscriptions, node)
           /\ SharedHas(subscriptions[node].shared, group)
           /\ \E i \in 1..Len(SharedGet(subscriptions[node].shared, group)) :
                 SharedGet(subscriptions[node].shared, group)[i].identifier
                   = LastEdit.identifier

\* the share groups stored in the tree: the filter levels after the share
\* name and the identifiers of the members
SharedGroups(tree) ==
    {[filter |-> Tail(p),
      members |-> {tree[p].shared[i][2][j].identifier :
                      j \in 1..Len(tree[p].shared[i][2])}] :
        <<p, i>> \in {<<q, k>> \in (DOMAIN tree) \X (1..MaxIdent) :
                        /\ Len(q) >= 2
                        /\ Head(q) = EMPTY
                        /\ k <= Len(tree[q].shared)
                        /\ tree[q].shared[k][2] # <<>>}}

\* the share groups whose filter matches the topic level by level
GroupsMatching(tree, topic) ==
    {g \in SharedGroups(tree) : LevelsMatch(g.filter, Split(topic))}

\* App::publish repeated: the messages an identifier is sent in K publishes
\* on the topic, one after the other, while the tree stays as it is
RECURSIVE Deliveries(_, _, _, _)
Deliveries(tree, topic, identifier, K) ==
    IF K = 0 THEN 0
    ELSE (IF identifier \in IdentifiersOf(get_matches(tree, topic)) THEN 1 ELSE 0)
         + Deliveries(tree, topic, identifier, K - 1)

\* C25: across K publishes in a row on a topic matched by a share group of
\* G >= 1 members, every member of the group receives at least K \div G of
\* the deliveries
C25_SharedGroupFairness ==
    \A t \in TreeTopics, K \in 1..MaxPublishes :
        \A g \in GroupsMatching(subscriptions, t) :
            \A m \in g.members :
                Deliveries(subscriptions, t, m, K) >= K \div Cardinality(g.members)

\* C26: a publish on a topic matching the filter of a share group with at
\* least one member is delivered to a member of the group, and to no second
\* member on account of the group
C26_SharedGroupExactlyOne ==
    \A t \in TreeTopics :
        \A g \in GroupsMatching(subscriptions, t) :
            LET delivered == g.members \cap IdentifiersOf(get_matches(subscriptions, t))
            IN /\ delivered # {}
               /\ Cardinality(delivered \ RegularMatches(subscriptions, t)) <= 1

----------------------------------------------------------------------------
(* Properties of the codec *)

RECURSIVE Pow128(_)
Pow128(i) == IF i = 0 THEN 1 ELSE 128 * Pow128(i - 1)

\* the number of bytes of the minimal encoding of a remaining length
MinimalBytes(n) == CHOOSE k \in 1..4 : n < Pow128(k) /\ (k > 1 => n >= Pow128(k - 1))

\* the minimal encoding: seven bits a byte, least significant first, bit 7
\* set on every byte but the last
MinimalEncoding(n) ==
    [i \in 1..MinimalBytes(n) |->
        ((n \div Pow128(i - 1)) % 128) + (IF i < MinimalBytes(n) THEN 128 ELSE 0)]

\* C28: for every n in 0..268435455 encode_length appends the minimal
\* encoding of n, k bytes with k in 1..4, also to a buffer that holds the
\* fixed-header byte, and decode_length of those bytes yields (n, k)
C28_LengthRoundTrip ==
    scenario = "length" =>
        /\ Len(output) >= 1 => output[1] = input.bytes \o MinimalEncoding(input.len)
        /\ Len(output) = 2 => output[2] = [ok |-> TRUE, value |-> input.len,
                                           len |-> MinimalBytes(input.len)]

\* C37: decoding a SUBSCRIBE whose low four header bits are not 0010 returns
\* MalformedHeader, for each of the sixteen flag values
C37_SubscribeFlagsChecked ==
    (/\ scenario = "decode"
     /\ output # <<>>
     /\ input[1] \div 16 = SUBSCRIBE
     /\ input[1] % 16 # 2) => output[1] = Err("MalformedHeader")

\* C38: Packet::unpack never subtracts a length below zero, neither with a
\* panic nor by wrapping, and accepts no input that ends before the
\* declared remaining length: it returns an error.  What it accepts takes
\* no more bytes than the remaining length declares
C38_NoUnderflowNoTruncation ==
    (scenario = "decode" /\ output # <<>>) =>
        /\ output[1] # Panic
        /\ Len(input) - 2 < input[2] => ~output[1].ok
        /\ output[1].ok =>
               Len(VariableHeaderPack(output[1].packet.variable)) <= input[2]

\* C40: after a setter of FixedHeader has run with a legal argument v the
\* matching getter returns v and the three other fields are as before, for
\* every value of the flags byte
C40_SetterThenGetter ==
    (scenario = "header" /\ output # <<>>) =>
        LET call == output[1]
            old == HeaderOf(input)
            new == call.fixed
            type == IF call.setter = "set_packet_type" THEN Some(call.value)
                    ELSE get_packet_type(old)
            dup == IF call.setter = "set_dup" THEN call.value ELSE get_dup(old)
            qos == IF call.setter = "set_qos" THEN Some(call.value)
                   ELSE get_qos(old)
            retain == IF call.setter = "set_retain" THEN call.value
                      ELSE get_retain(old)
        IN /\ get_packet_type(new) = type
           /\ get_dup(new) = dup
           /\ get_qos(new) = qos
           /\ get_retain(new) = retain

\* the levels hold no separator
NoSeparator(levels) ==
    \A i \in 1..Len(levels) : \A j \in 1..Len(levels[i]) : levels[i][j] # SEP

\* C39: tokenise_topic keeps every level, empty ones too: without a first
\* level `$share` it returns the levels in order and no share name; for
\* `$share/<group>/<rest>` it returns <group> as share name and an empty
\* level followed by the levels of <rest>; for `$share` alone it returns an
\* error
C39_TokeniseTopic ==
    (scenario = "tokens" /\ output # <<>>) =>
        LET r == output[1] IN
        IF input = SHARE THEN ~r.ok
        ELSE /\ r.ok
             /\ r.topic # <<>>
             /\ NoSeparator(r.topic)
             /\ IF StartsWith(input, Append(SHARE, SEP))
                THEN /\ r.share # None
                     /\ NoSeparator(r.share)
                     /\ Head(r.topic) = EMPTY
                     /\ JoinLevels(<<SHARE, r.share[1]>> \o Tail(r.topic)) = input
                ELSE /\ r.share = None
                     /\ JoinLevels(r.topic) = input

\* $share/g/a/a gives the levels "", a, a and the share name g
C39_Witness ==
    /\ scenario = "tokens"
    /\ input = SHARE \o <<"/", "g", "/", "a", "/", "a">>
    /\ output = <<[ok |-> TRUE, topic |-> <<EMPTY, <<"a">>, <<"a">>>>,
                   share |-> Some(<<"g">>)]>>

\* C27: for every valid packet P of every type, Packet::unpack of the
\* bytes P packs to yields P and, as the length consumed, the number of those
\* bytes
C27_CodecRoundTrip ==
    (scenario = "codec" /\ Len(output) = 2) =>
        output[2] = [ok |-> TRUE, packet |-> input, len |-> Len(output[1])]

\* the parts of a topic with the `$` taken from the front of part j
Undollar(parts, j) == [parts EXCEPT ![j] = Tail(@)]

\* part j of the topic is a level behind the first that starts with `$` and
\* the filter has a wildcard for it: `+` at j, or `#` at j or before
WildcardMeetsLaterDollar(topic, filter, j) ==
    LET t == split_inclusive(topic)
        f == split_inclusive(filter)
    IN /\ j \in 2..Len(t)
       /\ StartsWith(t[j], VARIABLE_IDENT)
       /\ Len(t[j]) > 1
       /\ \/ j <= Len(f) /\ f[j] = SINGLE_LEVEL_WILD
          \/ \E i \in 1..Min(j, Len(f)) : f[i] = MULTI_LEVEL_WILD

\* C29: Pattern::new(topic).matches(filter) is false when the first level of
\* the topic starts with `$` and the first level of the filter is `+` or
\* `#`; a level behind the first that starts with `$` is matched by a
\* wildcard as the same level without the `$` is
C29_DollarSuppressedAtFirstLevelOnly ==
    (scenario = "pattern" /\ output # <<>>) =>
        /\ (/\ FirstLevelIsDollar(input.topic)
            /\ Head(Split(input.filter)) \in {SINGLE_LEVEL_WILD, MULTI_LEVEL_WILD})
              => output[1] = FALSE
        /\ \A j \in 1..Len(input.topic) :
              WildcardMeetsLaterDollar(input.topic, input.filter, j) =>
                  output[1] = matches([pattern |-> Undollar(split_inclusive(input.topic), j)],
                                      input.filter)

\* test_match_doller_not_at_start with SYS shortened: a/$S is matched by a/+
C29_Witness ==
    /\ scenario = "pattern"
    /\ input = [topic |-> <<"a", "/", "$", "S">>, filter |-> <<"a", "/", "+">>]
    /\ output = <<TRUE>>

----------------------------------------------------------------------------
(* Properties of the broker and its connections *)

\* the broker takes the command at the head of its channel and finishes it
BrokerProcessed(type) == BrokerTakes(type) /\ commands' = Tail(commands)

\* the broker ends the handling of a RegisterClient: of the one it takes
\* from the channel, or of the one it held while it waited
RegisterEnds ==
    \/ BrokerProcessed("RegisterClient") /\ brokerPc' = "recv"
    \/ brokerPc = "register" /\ brokerPc' = "recv"

Registered == IF brokerPc = "register" THEN pending ELSE Head(commands)

\* a RegisterClient for a ClientId that has a session is processed
TakeoverStep ==
    /\ RegisterEnds
    /\ has_client(sessions, Registered.id)

HasDisconnect(c) ==
    \E i \in 1..Len(events[c]) : events[c][i] = ClientEventDisconnect

\* the registry holds the session of id, and its producer is the one of
\* the connection that registered last
OneSessionOf(sess, id, c) == has_client(sess, id) /\ sess[id].bridge = c

\* C1 as stated: after the second of two RegisterClient commands with the
\* same ClientId, the registry holds one session for it, with the second
\* connection's producer, and a Disconnect event was enqueued on the first
\* connection's event channel.
C1_TakeoverEnqueuesDisconnect ==
    [][TakeoverStep =>
        LET id == Registered.id
            old == sessions[id].bridge
        IN /\ OneSessionOf(sessions', id, Registered.from)
           /\ events'[old] = Append(events[old], ClientEventDisconnect)]_vars

\* C1, amended: after the second of two RegisterClient commands with the
\* same ClientId, the registry holds one session for it, with the second
\* connection's producer; the Disconnect event was enqueued on the first
\* connection's event channel if that channel was still open, and was
\* sent to the producer stored before, not to the new one.
C1_TakeoverDisconnectsOpenChannel ==
    [][TakeoverStep =>
        LET id == Registered.id
            old == sessions[id].bridge
            new == Registered.from
        IN /\ OneSessionOf(sessions', id, new)
           /\ ~ReceiverDropped(old) =>
                 events'[old] = Append(events[old], ClientEventDisconnect)
           /\ ReceiverDropped(old) => events'[old] = events[old]
           /\ old # new => events'[new] = events[new]]_vars

\* connection 2 holds the session of X and the Disconnect event waits in
\* the channel of connection 1, which registered X first
C1_Witness ==
    /\ seenConnect[1] /\ cid[1] = Some("X")
    /\ OneSessionOf(sessions, "X", 2)
    /\ HasDisconnect(1)

\* a connection that is open: its tasks run and nothing has cancelled it
Open(c) ==
    /\ readPc[c] \in {"select", "await_register", "await_subscribe", "await_unsubscribe"}
    /\ mhPc[c] = "run"
    /\ whPc[c] \in {"run", "empty", "write"}
    /\ ~token[c]

\* connection c registered id and no later connection took the id over:
\* a takeover would have put a Disconnect event in its channel
HoldsClientId(c, id) ==
    /\ seenConnect[c]
    /\ cid[c] = Some(id)
    /\ Open(c)
    /\ ~HasDisconnect(c)

\* C2: once connection 2 has taken over the ClientId X from connection 1,
\* the registry holds the session of X, with the producer of connection 2,
\* in every state in which connection 2 is open.
C2_TakeoverKeepsNewSession ==
    (seenConnect[1] /\ cid[1] = Some("X") /\ HoldsClientId(2, "X"))
        => OneSessionOf(sessions, "X", 2)

\* the PUBLISH packets in a sequence of packets
RECURSIVE Publishes(_)
Publishes(packets) ==
    IF packets = <<>> THEN <<>>
    ELSE IF Head(packets).type = "PUBLISH"
         THEN <<Head(packets)>> \o Publishes(Tail(packets))
         ELSE Publishes(Tail(packets))

RECURSIVE Messages(_)
Messages(evs) ==
    IF evs = <<>> THEN <<>>
    ELSE IF Head(evs).kind = "Message"
         THEN <<Head(evs).packet>> \o Messages(Tail(evs))
         ELSE Messages(Tail(evs))

\* a connection still holds a SUBACK for a filter that matches the topic
StillGranted(a, topic) == \E f \in granted[a] : MqttMatches(f, topic)

\* the entries of a match result that lead to connection a
TargetsOf(found, a) == {i \in 1..Len(found) : found[i][2] = a}

\* C3: when the broker has dispatched a Publish, every connection that held
\* the SUBACK of a matching filter when the PUBLISH was read, and is still
\* open and subscribed, was a target of the dispatch exactly once.
C3_SubscriberIsServedOnce ==
    \A a \in lastPublish.expect :
        (Open(a) /\ StillGranted(a, lastPublish.topic))
            => Cardinality(TargetsOf(lastPublish.found, a)) = 1

\* C6: the command loop of the broker ends only by Exit.
C6_LoopEndsOnlyByExit == brokerPc # "returned"

\* the read handler of a connection has ended
ReaderEnded(c) == readPc[c] \in {"done", "early", "violation", "panicked"}

\* C7: a registered connection whose read handler has ended has sent
\* DisconnectClient to the broker (as long as the broker runs).
C7_ClosedConnectionSentDisconnectClient ==
    \A c \in Conns :
        (seenConnect[c] /\ ReaderEnded(c) /\ ~BrokerGone) => c \in disconnectSent

\* C8: the broker never waits for room in the event channel of a
\* recipient.
C8_DispatchNeverWaits == brokerPc # "blocked"

\* the broker sends the events of a Publish
DispatchStep ==
    /\ pending' # pending \/ lastPublish' # lastPublish
    /\ brokerPc # "register" /\ brokerPc' # "register"

\* the Publish whose events the step has sent
Dispatched == IF brokerPc' = "blocked" THEN pending' ELSE lastPublish'

\* C9: every PUBLISH packet the broker enqueues for a recipient carries
\* the minimum of the QoS granted to the recipient's subscription and the
\* QoS of the incoming publish.
C9_QosIsMinimum ==
    [][DispatchStep =>
        \A c \in Conns :
            \A i \in (Len(events[c]) + 1)..Len(events'[c]) :
                \E j \in TargetsOf(Dispatched.found, c) :
                    events'[c][i].packet.qos
                        = Min(Dispatched.found[j][3], Dispatched.payload[3])]_vars

\* the message the writer was called with for an entry of `written`
Offered(wrote) == IF wrote.type = "PARTIAL" THEN wrote.packet ELSE wrote

\* the PUBLISH packets on their way to the socket of a connection, the
\* ones written first: socket, write handler, reply queue, event channel
Delivery(c) ==
    Publishes([i \in 1..Len(written[c]) |-> Offered(written[c][i])])
        \o Publishes(writing[c]) \o Publishes(queue[c]) \o Messages(events[c])

\* the payload of a PUBLISH names its publisher and the number the
\* publisher's read handler sent it under; the command channel is FIFO, so
\* the broker processes the Publish commands of a publisher by rising number
InPublisherOrder(packets) ==
    \A i, j \in 1..Len(packets) :
        (i < j /\ packets[i].payload[1] = packets[j].payload[1])
            => packets[i].payload[2] < packets[j].payload[2]

\* C10: for a publisher and a subscriber, the PUBLISH packets written to
\* the subscriber's socket, and those still on their way to it, are in the
\* order in which the broker processed the publisher's Publish commands.
C10_DeliveryKeepsPublisherOrder == \A c \in Conns : InPublisherOrder(Delivery(c))

\* a PUBLISH of a publisher was written to a socket while the two PUBLISH
\* packets the broker dispatched after it wait in the event channel of the
\* connection
C10_Witness ==
    \E c \in Conns :
        /\ Len(Messages(events[c])) = 2
        /\ \E i \in 1..Len(written[c]) :
              /\ written[c][i].type = "PUBLISH"
              /\ \A m \in 1..2 :
                    Messages(events[c])[m].payload[1] = written[c][i].payload[1]

\* the leaves stored in the tree under a filter for an identifier
StoredFor(tree, filter, identifier) ==
    LET tok == tokenise_topic(filter)
        leaves == IF ~tok.ok \/ ~HasNode(tree, tok.topic) THEN <<>>
                  ELSE IF tok.share = None THEN tree[tok.topic].subs
                  ELSE IF SharedHas(tree[tok.topic].shared, tok.share[1])
                       THEN SharedGet(tree[tok.topic].shared, tok.share[1])
                       ELSE <<>>
    IN {leaves[i] : i \in {j \in 1..Len(leaves) : leaves[j].identifier = identifier}}

\* a filter that begins with `$` but not with `$SYS/`
DollarFilter(filter) ==
    /\ StartsWith(filter, <<"$">>)
    /\ ~StartsWith(filter, <<"$", "S", "Y", "S", "/">>)

\* the broker processes the Subscribe of a registered client
SubscribeStep ==
    /\ BrokerProcessed("Subscribe")
    /\ has_client(sessions, Head(commands).id)

\* the read handler of c takes the Ok reply to its Subscribe
SubackStep(c) == readPc[c] = "await_subscribe" /\ readPc'[c] = "select"

\* C11: the reply to the Subscribe of a registered client holds one code
\* per requested filter, in request order: 0x80 for a filter that begins
\* with `$` but not with `$SYS/`, which is not inserted, otherwise the
\* requested QoS, with the filter inserted for the client; the SUBACK
\* queued for the client carries these codes and answers that SUBSCRIBE.
C11_SubscribeReturnCodes ==
    [][/\ SubscribeStep =>
            LET cmd == Head(commands)
                ident == sessions[cmd.id].ident
                rep == reply'[cmd.from]
            IN /\ rep # None
               /\ rep[1].status = "Ok"
               /\ Len(rep[1].codes) = Len(cmd.topics)
               /\ \A i \in 1..Len(cmd.topics) :
                     LET filter == cmd.topics[i][1]
                         qos == cmd.topics[i][2]
                     IN IF DollarFilter(filter)
                        THEN /\ rep[1].codes[i] = SubackFailure
                             /\ StoredFor(subscriptions', filter, ident)
                                   = StoredFor(subscriptions, filter, ident)
                        ELSE /\ rep[1].codes[i] = qos
                             /\ \E leaf \in StoredFor(subscriptions', filter, ident) :
                                   leaf.qos = qos
       /\ \A c \in Conns :
            SubackStep(c) =>
                queue'[c] = Append(queue[c], make_suback(body[c], reply[c][1].codes))]_vars

\* a SUBACK with a failure code for `$share/g/a/b` and the granted QoS 2
\* for `$SYS/#` was written to connection 1
C11_Witness ==
    \E i \in 1..Len(written[1]) :
        /\ written[1][i].type = "SUBACK"
        /\ written[1][i].topic = <<<<F_share_a_b, 0>>, <<F_sys_hash, 2>>>>
        /\ written[1][i].codes = <<SubackFailure, 2>>
        /\ StoredFor(subscriptions, F_share_a_b, sessions["X"].ident) = {}
        /\ StoredFor(subscriptions, F_sys_hash, sessions["X"].ident) # {}

\* the identifiers that have a leaf somewhere in the tree
IdentifiersIn(tree) ==
    UNION {{tree[p].subs[i].identifier : i \in 1..Len(tree[p].subs)}
           \cup UNION {{tree[p].shared[g][2][i].identifier :
                           i \in 1..Len(tree[p].shared[g][2])} :
                       g \in 1..Len(tree[p].shared)} : p \in DOMAIN tree}

\* C12: after the broker has processed DisconnectClient for a ClientId,
\* the registry holds no session for it and the subscription tree holds no
\* leaf (and so no producer handle) of that session.
C12_DisconnectClientRemovesSubscriptions ==
    [][(BrokerProcessed("DisconnectClient") /\ has_client(sessions, Head(commands).id))
        => /\ ~has_client(sessions', Head(commands).id)
           /\ sessions[Head(commands).id].ident \notin IdentifiersIn(subscriptions')]_vars

\* C13: after the broker has processed a RegisterClient with clean_session
\* for a ClientId, the client has no subscriptions: its session lists
\* none and the subscription tree holds no leaf of the session, so that no
\* Publish is sent on account of a filter subscribed before.
C13_CleanSessionDropsSubscriptions ==
    [][(RegisterEnds /\ Registered.clean)
        => LET id == Registered.id IN
           /\ has_client(sessions', id)
           /\ sessions'[id].subscriptions = <<>>
           /\ sessions'[id].ident \notin IdentifiersIn(subscriptions')]_vars

\* the leaves stored in the tree, in the nodes and in their share groups
LeavesIn(tree) ==
    UNION {{tree[p].subs[i] : i \in 1..Len(tree[p].subs)}
           \cup UNION {{tree[p].shared[g][2][i] :
                           i \in 1..Len(tree[p].shared[g][2])} :
                       g \in 1..Len(tree[p].shared)} : p \in DOMAIN tree}

\* C34: every subscription stored for a ClientId holds the outbound producer
\* of the current session of that ClientId, so that after a takeover or a
\* reconnect a matching Publish is enqueued on the channel of the new
\* connection and not on that of the superseded one
C34_LeafHoldsCurrentProducer ==
    \A id \in DOMAIN sessions : \A leaf \in LeavesIn(subscriptions) :
        leaf.identifier = sessions[id].ident => leaf.bridge = sessions[id].bridge

\* C36: handle_write_stream returns Ok only once cancellation has been
\* requested and every message of the reply queue has been written to the
\* socket, in the order of the queue, and it then shuts the writer down; a
\* failed write makes it return Err
C36_WriterDrainsBeforeOk ==
    [][\A c \in Conns :
          /\ (whPc[c] # "done" /\ whPc'[c] = "done")
                => token[c] /\ queue'[c] = <<>> /\ sockShut'[c]
          /\ (writing'[c] # writing[c] /\ writing'[c] # None)
                => /\ queue[c] # <<>>
                   /\ writing'[c] = Some(Head(queue[c]))
                   /\ queue'[c] = Tail(queue[c])
          /\ (written'[c] # written[c])
                => written'[c] = Append(written[c], writing[c][1])
          /\ handle_write_stream_WriteError(c) => whPc'[c] = "err"]_vars

----------------------------------------------------------------------------
(* The state of a connection: AwaitingConnect and Connected *)

\* the read handler takes a packet that is not a CONNECT
NonConnectRead(c) ==
    \/ read_Publish(c)
    \/ read_Subscribe(c)
    \/ read_Unsubscribe(c)
    \/ read_Simple(c)
    \/ read_Disconnect(c)

ReaderStopped(c) == readPc[c] \in {"cleanup", "done", "early", "violation", "panicked"}

\* C14: while no CONNECT has been accepted on a connection, a packet of any
\* other type ends the read handler, and neither a command is forwarded to
\* the broker nor a packet queued for the client
C14_OnlyConnectBeforeConnected ==
    [][\A c \in Conns :
          (~seenConnect[c] /\ NonConnectRead(c)) =>
              /\ commands' = commands
              /\ queue'[c] = queue[c]
              /\ ReaderStopped(c)']_vars

ConnectionClosed(c) ==
    /\ token[c]
    /\ ReaderStopped(c) /\ readPc[c] # "cleanup"
    /\ mhPc[c] = "done"
    /\ whPc[c] = "done"
    /\ sockShut[c]

\* C15: a second CONNECT on a connection closes it: its token is cancelled,
\* its read, write and message tasks stop and the socket is shut down
C15_SecondConnectClosesConnection ==
    \A c \in Conns : (readPc[c] = "violation") ~> ConnectionClosed(c)

\* C16: a CONNACK, SUBACK, UNSUBACK or PINGRESP sent by a client closes that
\* connection and nothing else: the read handler leaves its loop by `break`,
\* cancels the token and returns, it does not panic
C16_ServerPacketClosesCleanly ==
    [][\A c \in Conns :
          read_ServerPacket(c) =>
              /\ readPc'[c] \in {"cleanup", "done"}
              /\ token'[c]]_vars

----------------------------------------------------------------------------
(* The keepalive timer *)

\* the read handler of a connected client takes a valid packet
ValidPacketStep(c) == seenConnect[c] /\ (read_Publish(c) \/ read_Simple(c))

\* C17: in the Connected state every valid packet, whatever its type, moves
\* the keepalive deadline to the present instant plus the keepalive duration
C17_ValidPacketResetsKeepalive ==
    [][\A c \in Conns :
          ValidPacketStep(c) => keepalive'[c] = now + keepalive_duration[c]]_vars

\* the read handler learns that its CONNECT was accepted
ConnectAccepted(c) == ~seenConnect[c] /\ seenConnect'[c]

\* C18: after a CONNECT with keepalive k > 0 is accepted the deadline lies
\* 1.5 * k seconds after the reset, and with k = 0 the keepalive timer never
\* closes the connection
C18_KeepaliveDeadline ==
    [][\A c \in Conns :
          /\ (ConnectAccepted(c) /\ bodyKeepalive[c] > 0) =>
                 2 * keepalive'[c] = 2 * now + 3 * bodyKeepalive[c]
          /\ (seenConnect[c] /\ bodyKeepalive[c] = 0) =>
                 ~read_KeepaliveTimeout(c)]_vars

----------------------------------------------------------------------------
(* Shutdown *)

TaskEnded(c) ==
    /\ ReaderStopped(c) /\ readPc[c] # "cleanup"
    /\ mhPc[c] = "done"
    /\ whPc[c] \in {"done", "err"}

Terminated == BrokerGone /\ \A c \in Conns : TaskEnded(c)

\* one of the three tasks of the connection has returned or panicked
SomeTaskEnded(c) ==
    \/ readPc[c] \in {"done", "early", "violation", "panicked"}
    \/ mhPc[c] = "done"
    \/ whPc[c] \in {"done", "err"}

\* C35: once one of the three tasks of a connection has ended, for whatever
\* reason, the token of the connection is eventually cancelled and the two
\* other tasks end, so that client_handler returns
C35_TaskEndClosesConnection ==
    \A c \in Conns : SomeTaskEnded(c) ~> (token[c] /\ TaskEnded(c))

\* C19: once the listener has sent Exit and cancelled its token, the broker
\* task and the three tasks of every connection eventually end
C19_ShutdownTerminates == extCancelled ~> Terminated

----------------------------------------------------------------------------
(* Framing *)

ReadingOver == inbound = <<>> \/ LoopBroken

\* C20: whatever way the bytes of the packets a client sent are grouped into
\* reads, the read loop decodes every packet exactly once and in order
C20_EveryPacketDecodedOnce ==
    ReadingOver =>
        /\ Len(decoded) = Len(sent)
        /\ \A i \in 1..Len(sent) :
              /\ decoded[i].ok
              /\ decoded[i] = unpack(sent[i], profile)

----------------------------------------------------------------------------
(* The first packet of a connection *)

\* the PacketType and the VariableHeader of an acknowledgement
AckType(type) ==
    CASE type = "PUBACK" -> PUBACK [] type = "PUBREC" -> PUBREC
      [] type = "PUBREL" -> PUBREL [] type = "PUBCOMP" -> PUBCOMP

AckKind(type) ==
    CASE type = "PUBACK" -> "PubAck" [] type = "PUBREC" -> "PubRec"
      [] type = "PUBREL" -> "PubRel" [] type = "PUBCOMP" -> "PubComp"

\* the bytes a queued packet is: Packet::make_connack(rc, false),
\* make_puback, make_pubrec, make_pubrel (QoS bits 01) and make_pubcomp
WireBytes(packet) ==
    IF packet.type = "CONNACK"
    THEN pack([fixed |-> FixedHeaderNew(CONNACK, FALSE, 0, FALSE, 0),
               variable |-> [kind |-> "ConnAck", acknowledge_flags |-> 0,
                             return_code |-> packet.codes[1]]])
    ELSE pack([fixed |-> FixedHeaderNew(AckType(packet.type), FALSE,
                                        IF packet.type = "PUBREL" THEN 1 ELSE 0,
                                        FALSE, 0),
               variable |-> [kind |-> AckKind(packet.type),
                             packet_id |-> packet.packet_id]])

\* the bytes an entry of `written` put on the socket: those of the message,
\* or the first of them when the writer took no more
SocketBytes(wrote) ==
    IF wrote.type = "PARTIAL"
    THEN Take(WireBytes(wrote.packet), 1, wrote.len)
    ELSE WireBytes(wrote)

\* the CONNECT packets of protocol level 4 named "MQTT" with a ClientId
WellFormedConnects ==
    {TestConnect} \cup {ConnectBytes(MQTT, 4, flags, 60, <<88>>) : flags \in ConnectFlags}

\* C21: a well-formed MQTT 3.1.1 CONNECT received first is decoded with its
\* fields intact, and the first packet written on the connection is the
\* CONNACK 20 02 00 00
C21_WellFormedConnectAccepted ==
    sent[1] \in WellFormedConnects =>
        /\ decoded # <<>> => decoded[1].ok
        /\ written[1] # <<>> => SocketBytes(written[1][1]) = <<32, 2, 0, 0>>

\* the CONNECT packets named "MQTT" of a protocol level other than 4
UnsupportedLevelConnects ==
    {ConnectBytes(MQTT, level, flags, 60, id) :
        level \in ProtocolLevels \ {4}, flags \in ConnectFlags, id \in ClientIds}

\* C23: after a CONNECT of an unsupported protocol level no session is
\* registered, and when the socket is shut down the CONNACK 20 02 00 01 has
\* been written to it
C23_UnsupportedLevelRefused ==
    sent[1] \in UnsupportedLevelConnects =>
        /\ sessions = <<>>
        /\ commands = <<>>
        /\ sockShut[1] =>
              /\ Len(written[1]) = 1
              /\ SocketBytes(written[1][1]) = <<32, 2, 0, 1>>

\* the CONNECT packets of level 4 with an empty ClientId and CleanSession 0
EmptyIdConnects == {ConnectBytes(MQTT, 4, 0, 60, <<>>)}

\* C24: a CONNECT with an empty ClientId and CleanSession = false registers
\* no session, every packet written in answer is the CONNACK 20 02 00 02,
\* and that CONNACK has been written when the socket is shut down
C24_EmptyClientIdRejected ==
    sent[1] \in EmptyIdConnects =>
        /\ sessions = <<>>
        /\ commands = <<>>
        /\ \A i \in 1..Len(written[1]) :
              SocketBytes(written[1][i]) = <<32, 2, 0, V4IdentifierRejected>>
        /\ sockShut[1] => Len(written[1]) = 1

----------------------------------------------------------------------------
(* The QoS handshake *)

\* the packets a step of the read handler adds to the reply queue
Queued(c) == SubSeq(queue'[c], Len(queue[c]) + 1, Len(queue'[c]))

\* the bytes a step of the read handler adds to the reply queue
QueuedBytes(c) == [i \in 1..Len(Queued(c)) |-> WireBytes(Queued(c)[i])]

\* C22: on a connected client a PUBLISH forwards one Publish command and
\* queues nothing at QoS 0, PUBACK 40 02 <id> at QoS 1 and PUBREC 50 02 <id>
\* at QoS 2; a PUBREC queues PUBREL 62 02 <id>, a PUBREL queues PUBCOMP
\* 70 02 <id>, a PUBACK or a PUBCOMP queues nothing
C22_QosHandshake ==
    [][\A c \in Conns : \A packet_id \in PacketIds(c) :
          (seenConnect[c] /\ ~BrokerGone) =>
             /\ \A topic \in PublishTopics(c), qos \in PublishQos(c) :
                   PacketPublish(c, topic, qos, packet_id) =>
                      /\ Len(commands') = Len(commands) + 1
                      /\ commands'[Len(commands')].type = "Publish"
                      /\ commands'[Len(commands')].topic = topic
                      /\ QueuedBytes(c) =
                            CASE qos = 0 -> <<>>
                              [] qos = 1 -> <<<<64, 2, 0, packet_id>>>>
                              [] qos = 2 -> <<<<80, 2, 0, packet_id>>>>
             /\ \A type \in AckTypes :
                   PacketSimple(c, type, packet_id) =>
                      QueuedBytes(c) =
                         CASE type = "PUBREC" -> <<<<98, 2, 0, packet_id>>>>
                           [] type = "PUBREL" -> <<<<112, 2, 0, packet_id>>>>
                           [] OTHER -> <<>>]_vars

\* a connected client has sent a QoS 2 PUBLISH with packet identifier 2 and
\* the PUBREC was written after the CONNACK
C22_Witness ==
    /\ seenConnect[1]
    /\ written[1] = <<make_connack(Accepted), make_ack("PUBREC", 2)>>
    /\ Len(commands) = 1 /\ commands[1].type = "Publish"

====
